---- MODULE Spec2Model ----
(***************************************************************************)
(* Conversation state machine of public_bot.py: the three conversation     *)
(* handlers (complaint, rti, traffic) registered in main(), their step     *)
(* callbacks, the per-user session dictionaries kept in context.user_data  *)
(* and the phone normaliser.                                               *)
(*                                                                         *)
(* Text is modelled as a sequence of one-character strings, so that        *)
(* strip(), lower(), replace() and startswith() are computed rather than   *)
(* assumed.                                                                *)
(***************************************************************************)
EXTENDS Integers, Sequences, FiniteSets, TLC

(***************************************************************************)
(* Bounds of the model.                                                    *)
(***************************************************************************)
\* "resend" inputs the user may send during one stay at a verification step
MaxResends == 5
\* flow-start commands accepted in one behaviour
MaxStarts == 2
\* different flows one user takes part in during one behaviour
MaxFlowsPerUser == 1
\* different flows one user has in progress at once where two flows are studied
MaxFlowsTogether == 2
\* times the user types the word "cancel" at a step that stores its text
MaxCancelTexts == 1
\* longest varied beginning of the numbers given to normalize_phone_number
MaxPrefix == 3

(***************************************************************************)
(* Python str helpers.                                                     *)
(***************************************************************************)
UpperLetters ==
  <<"A","B","C","D","E","F","G","H","I","J","K","L","M",
    "N","O","P","Q","R","S","T","U","V","W","X","Y","Z">>

LowerLetters ==
  <<"a","b","c","d","e","f","g","h","i","j","k","l","m",
    "n","o","p","q","r","s","t","u","v","w","x","y","z">>

Digits == {"0","1","2","3","4","5","6","7","8","9"}

\* str.lower() on one character
LowerChar(c) ==
  IF \E i \in 1..26 : UpperLetters[i] = c
    THEN LowerLetters[CHOOSE i \in 1..26 : UpperLetters[i] = c]
    ELSE c

\* str.lower()
Lower(s) == [i \in 1..Len(s) |-> LowerChar(s[i])]

\* s[n:]
DropFirst(s, n) == IF n >= Len(s) THEN <<>> ELSE SubSeq(s, n + 1, Len(s))

\* str.startswith(p)
StartsWith(s, p) == Len(s) >= Len(p) /\ SubSeq(s, 1, Len(p)) = p

Whitespace == {" ", "\n", "\t"}

RECURSIVE LStrip(_)
LStrip(s) == IF s # <<>> /\ s[1] \in Whitespace THEN LStrip(Tail(s)) ELSE s

RECURSIVE RStrip(_)
RStrip(s) ==
  IF s # <<>> /\ s[Len(s)] \in Whitespace
    THEN RStrip(SubSeq(s, 1, Len(s) - 1)) ELSE s

\* str.strip()
Strip(s) == RStrip(LStrip(s))

\* variant: nothing is replaced
RemoveNothing(s, c) == s

\* str.replace(c, "")
RECURSIVE Remove(_, _)
Remove(s, c) ==
  IF s = <<>> THEN <<>>
  ELSE IF s[1] = c THEN Remove(Tail(s), c)
  ELSE <<s[1]>> \o Remove(Tail(s), c)

\* str.isdigit()
IsDigit(s) == s # <<>> /\ \A i \in 1..Len(s) : s[i] \in Digits

(***************************************************************************)
(* normalize_phone_number                                                  *)
(***************************************************************************)
DropZeroZero(p) == IF StartsWith(p, <<"0","0">>) THEN DropFirst(p, 2) ELSE p

\* variant: the first character is dropped without looking at it
DropZeroAlways(p) == DropFirst(p, 1)

DropZero(p) == IF StartsWith(p, <<"0">>) THEN DropFirst(p, 1) ELSE p

\* variant: the default country code without its plus sign
kCountryCodeNoPlus == <<"9","1">>

\* the default country code
kCountryCode == <<"+","9","1">>

normalize_phone_number(raw_phone) ==
  LET phone == Remove(Remove(Strip(raw_phone), " "), "-") IN
  IF StartsWith(phone, <<"+">>) THEN phone
  ELSE LET p2 == DropZero(DropZeroZero(phone)) IN
       IF Len(p2) = 10 /\ IsDigit(p2) THEN kCountryCode \o p2
       ELSE IF ~StartsWith(p2, <<"+">>) THEN <<"+">> \o p2
       ELSE p2

(***************************************************************************)
(* Texts the modelled users type.                                          *)
(***************************************************************************)
kJane == <<"J","a","n","e">>
kCancel == <<"c","a","n","c","e","l">>
kCancelCap == <<"C","a","n","c","e","l">>
kResend == <<"r","e","s","e","n","d">>
kResendCap == <<" ","R","e","S","e","n","d">>
kSkip == <<"s","k","i","p">>
kSkipCap == <<"S","k","i","p">>
kYes == <<"Y","e","s">>
kNo == <<"N","o">>
kOkPadded == <<" ","O","K"," ">>
kFraudPadded == <<" ","F","r","a","u","d">>
kCode == <<"1","2","3","4","5","6">>
kPhone == <<"9","8","7","6","5","4","3","2","1","0">>
kPhoneZero == <<"0","9","8","7","6","5"," ","4","3","2","1","0">>

\* Values that are not text
None == <<"None">>
Users == {1, 2}
FlowKeys == {"complaint", "rti", "traffic"}
NoState == "NoState"
END == "END"

(***************************************************************************)
(* State.                                                                  *)
(*   conversations[u][f]  ConversationHandler state of user u in handler f *)
(*                        (NoState: the handler holds no key for u)        *)
(*   user_data[u]         context.user_data of u: flow key -> session dict *)
(*   last                 the update processed last, the callback that     *)
(*                        handled it, the replies sent and the             *)
(*                        collaborator calls made, in order                *)
(*   hist[u][f]           per session: verify_otp calls made, how many     *)
(*                        failed, whether one succeeded, and the resends   *)
(*                        of the current stay at the verification step     *)
(*   budget               what the modelled users may still do: flow-start *)
(*                        commands, "cancel" typed at a text-storing step, *)
(*                        the number of flows one user may take part in,   *)
(*                        and the users who send updates                   *)
(*   files                paths written to storage (Aadhaar images, traffic *)
(*                        photos, generated PDFs)                          *)
(*   saved                rows written by database.db_setup.save_*, oldest *)
(*                        first                                            *)
(***************************************************************************)
VARIABLES conversations, user_data, last, hist, budget, files, saved

vars == <<conversations, user_data, last, hist, budget, files, saved>>

EmptyDict == [k \in {} |-> None]

\* d[k] = v
Put(d, k, v) == [x \in (DOMAIN d) \cup {k} |-> IF x = k THEN v ELSE d[x]]

\* d.get(k, default)
Get(d, k, default) == IF k \in DOMAIN d THEN d[k] ELSE default

\* variant: one dictionary per flow shared by all users, as a module-level
\* dictionary would be
SetFieldShared(u, f, k, v) ==
  [w \in Users |->
     IF w = u \/ f \in DOMAIN user_data[w]
       THEN [user_data[w] EXCEPT ![f] = Put(@, k, v)]
       ELSE user_data[w]]

\* context.user_data[f][k] = v
SetField(u, f, k, v) == [user_data EXCEPT ![u][f] = Put(@, k, v)]

\* variant: the new dictionary is merged into the one already stored
SetSessionMerged(u, f, d) ==
  [user_data EXCEPT ![u] =
     Put(@, f, IF f \in DOMAIN @
                 THEN [k \in (DOMAIN @[f]) \cup (DOMAIN d) |->
                         IF k \in DOMAIN d THEN d[k] ELSE @[f][k]]
                 ELSE d)]

\* context.user_data[f] = d
SetSession(u, f, d) == [user_data EXCEPT ![u] = Put(@, f, d)]

NoHist == [checks |-> 0, failed |-> 0, verified |-> FALSE, resends |-> 0]

NoUpdate == [kind |-> "none", cmd |-> "", text |-> <<>>, mime |-> <<>>, ext |-> <<>>]

\* the program after main() has registered its handlers
Start ==
  /\ conversations = [u \in Users |-> [f \in FlowKeys |-> NoState]]
  /\ user_data = [u \in Users |-> EmptyDict]
  /\ last = [user |-> 0, upd |-> NoUpdate, flow |-> "app", callback |-> "none",
             log |-> <<>>]
  /\ hist = [u \in Users |-> [f \in FlowKeys |-> NoHist]]
  /\ files = {}
  /\ saved = <<>>

\* users who restart flows and type ordinary text
Init ==
  /\ Start
  /\ budget = [starts |-> MaxStarts, cancel_texts |-> 0, flows |-> MaxFlowsPerUser,
               users |-> {1}]

\* users who run one session and may type "cancel" where text is stored
InitCancelText ==
  /\ Start
  /\ budget = [starts |-> 1, cancel_texts |-> MaxCancelTexts,
               flows |-> MaxFlowsPerUser, users |-> {1}]

(***************************************************************************)
(* Updates delivered by the chat transport.                                *)
(***************************************************************************)
Command(c) == [NoUpdate EXCEPT !.kind = "command", !.cmd = c]
Text(t) == [NoUpdate EXCEPT !.kind = "text", !.text = t]
Photo == [NoUpdate EXCEPT !.kind = "photo"]
\* a file with declared media type m and file-name extension e
Document(m, e) == [NoUpdate EXCEPT !.kind = "document", !.mime = m, !.ext = e]
Location == [NoUpdate EXCEPT !.kind = "location"]

(***************************************************************************)
(* main(): the handlers in registration order.                             *)
(***************************************************************************)
EntryCommand ==
  [f \in FlowKeys |->
     CASE f = "complaint" -> "complaint" [] f = "rti" -> "rti" [] OTHER -> "traffic"]

EntryCallback ==
  [f \in FlowKeys |->
     CASE f = "complaint" -> "complaint_start"
       [] f = "rti" -> "rti_start"
       [] OTHER -> "traffic_start"]

ComplaintStates ==
  <<"COMPLAINT_NAME", "COMPLAINT_FATHER_NAME", "COMPLAINT_AGE", "COMPLAINT_PHONE",
    "COMPLAINT_OTP", "COMPLAINT_EMAIL", "COMPLAINT_AADHAAR", "COMPLAINT_ADDRESS",
    "COMPLAINT_INITIAL_DESC", "COMPLAINT_TYPE", "COMPLAINT_DATE",
    "COMPLAINT_LOCATION", "COMPLAINT_DESCRIPTION">>

ComplaintCallbacks ==
  <<"complaint_name", "complaint_father_name", "complaint_age", "complaint_phone",
    "complaint_otp", "complaint_email", "complaint_aadhaar", "complaint_address",
    "complaint_initial_description", "complaint_type", "complaint_date",
    "complaint_location", "complaint_description">>

RtiStates ==
  <<"RTI_NAME", "RTI_PHONE", "RTI_OTP", "RTI_EMAIL", "RTI_AADHAAR", "RTI_ADDRESS",
    "RTI_DEPARTMENT", "RTI_INFO", "RTI_PURPOSE">>

RtiCallbacks ==
  <<"rti_name", "rti_phone", "rti_otp", "rti_email", "rti_aadhaar", "rti_address",
    "rti_department", "rti_info", "rti_purpose">>

TrafficStates ==
  <<"TRAFFIC_NAME", "TRAFFIC_PHONE", "TRAFFIC_OTP", "TRAFFIC_VEHICLE", "TRAFFIC_TYPE",
    "TRAFFIC_LOCATION", "TRAFFIC_PHOTO", "TRAFFIC_DESC">>

TrafficCallbacks ==
  <<"traffic_name", "traffic_phone", "traffic_otp", "traffic_vehicle", "traffic_type",
    "traffic_location", "traffic_photo", "traffic_desc">>

\* the states dictionary of each ConversationHandler, in declared order
FlowStates ==
  [f \in FlowKeys |->
     CASE f = "complaint" -> ComplaintStates
       [] f = "rti" -> RtiStates
       [] OTHER -> TrafficStates]

FlowCallbacks ==
  [f \in FlowKeys |->
     CASE f = "complaint" -> ComplaintCallbacks
       [] f = "rti" -> RtiCallbacks
       [] OTHER -> TrafficCallbacks]

StateIndex(f, state) == CHOOSE i \in 1..Len(FlowStates[f]) : FlowStates[f][i] = state

\* the message filter of the handler registered for a state
StateFilter(state) ==
  CASE state \in {"COMPLAINT_AADHAAR", "RTI_AADHAAR"} -> {"photo", "document", "text"}
    [] state = "TRAFFIC_LOCATION" -> {"text", "location"}
    [] state = "TRAFFIC_PHOTO" -> {"photo", "text"}
    [] OTHER -> {"text"}

\* variant: allow_reentry=True, the entry point is tried in every state
ConversationCheckReentry(f, u, upd) ==
  LET state == conversations[u][f] IN
  IF upd.kind = "command" /\ upd.cmd = EntryCommand[f] THEN EntryCallback[f]
  ELSE IF state = NoState THEN "none"
  ELSE IF upd.kind \in StateFilter(state)
    THEN FlowCallbacks[f][StateIndex(f, state)]
  ELSE IF upd.kind = "command" /\ upd.cmd = "cancel" THEN "cancel"
  ELSE "none"

\* ConversationHandler.check_update with allow_reentry left at its default:
\* the entry point is tried only when the user has no state in this handler,
\* otherwise the state's handler, then the fallbacks
ConversationCheck(f, u, upd) ==
  LET state == conversations[u][f] IN
  IF state = NoState
    THEN IF upd.kind = "command" /\ upd.cmd = EntryCommand[f]
           THEN EntryCallback[f] ELSE "none"
  ELSE IF upd.kind \in StateFilter(state)
    THEN FlowCallbacks[f][StateIndex(f, state)]
  ELSE IF upd.kind = "command" /\ upd.cmd = "cancel" THEN "cancel"
  ELSE "none"

\* the callback handling e has called a collaborator that has not returned
Pending(e) == e.log # <<>> /\ e.log[Len(e.log)][1] = "pending"

\* variant: the conversation handlers are consulted in the reverse of the
\* order main() adds them
DispatchLastAdded(u, upd) ==
  IF Pending(last) THEN <<"app", "queued">>
  ELSE IF upd.kind = "location" THEN <<"app", "handle_location">>
  ELSE IF ConversationCheck("traffic", u, upd) # "none"
    THEN <<"traffic", ConversationCheck("traffic", u, upd)>>
  ELSE IF ConversationCheck("rti", u, upd) # "none"
    THEN <<"rti", ConversationCheck("rti", u, upd)>>
  ELSE IF ConversationCheck("complaint", u, upd) # "none"
    THEN <<"complaint", ConversationCheck("complaint", u, upd)>>
  ELSE IF upd.kind = "photo" THEN <<"app", "handle_photo">>
  ELSE IF upd.kind = "text" THEN <<"app", "handle_message">>
  ELSE <<"app", "none">>

\* Application.process_update: the first handler of the group that accepts
\* the update handles it.  The application is built without
\* concurrent_updates, so an update stays in the queue until the callback
\* handling the previous one has returned
Dispatch(u, upd) ==
  IF Pending(last) THEN <<"app", "queued">>
  ELSE IF upd.kind = "location" THEN <<"app", "handle_location">>
  ELSE IF ConversationCheck("complaint", u, upd) # "none"
    THEN <<"complaint", ConversationCheck("complaint", u, upd)>>
  ELSE IF ConversationCheck("rti", u, upd) # "none"
    THEN <<"rti", ConversationCheck("rti", u, upd)>>
  ELSE IF ConversationCheck("traffic", u, upd) # "none"
    THEN <<"traffic", ConversationCheck("traffic", u, upd)>>
  ELSE IF upd.kind = "photo" THEN <<"app", "handle_photo">>
  ELSE IF upd.kind = "text" THEN <<"app", "handle_message">>
  ELSE <<"app", "none">>

\* ConversationHandler._update_state: END removes the user's key
UpdateState(u, f, new_state) ==
  [conversations EXCEPT ![u][f] = IF new_state = END THEN NoState ELSE new_state]

\* What a callback did, in program order: replies sent to the user,
\* collaborator calls, writes to the session dictionary
Reply(tag) == <<"reply", tag>>
Call(name) == <<"call", name>>
\* a collaborator call whose returned value decides what follows
CallR(name, result) == <<"call", name, result>>
Write(key) == <<"write", key>>

Event(u, upd, f, cb, log) ==
  [user |-> u, upd |-> upd, flow |-> f, callback |-> cb, log |-> log]

Replies(e) == SelectSeq(e.log, LAMBDA x : x[1] = "reply")
Calls(e) == SelectSeq(e.log, LAMBDA x : x[1] = "call")

(***************************************************************************)
(* Patterns shared by the step callbacks of the three flows.               *)
(***************************************************************************)
Data(u, f) == user_data[u][f]

\* what the modelled user types at a step that stores the text as it is
PlainTexts == {kJane} \cup (IF budget.cancel_texts > 0 THEN {kCancel} ELSE {})

SpendCancel(t) ==
  IF t = kCancel THEN [budget EXCEPT !.cancel_texts = @ - 1] ELSE budget

\* the dictionary complaint_start, rti_start and traffic_start assign
FreshSession(u, f) ==
  IF f = "traffic"
    THEN [k \in {"user_id"} |-> u]
    ELSE [k \in {"user_id", "aadhaar_photo_path", "otp_attempts"} |->
            CASE k = "user_id" -> u
              [] k = "aadhaar_photo_path" -> None
              [] OTHER -> 0]

\* /complaint, /rti, /traffic: reply, then a new session dictionary
StartFlow(u, f, session, first) ==
  LET upd == Command(EntryCommand[f]) IN
  /\ budget.starts > 0
  /\ u \in budget.users
  /\ Cardinality((DOMAIN user_data[u]) \cup {f}) <= budget.flows
  /\ Dispatch(u, upd) = <<f, EntryCallback[f]>>
  /\ user_data' = SetSession(u, f, session)
  /\ conversations' = UpdateState(u, f, first)
  /\ last' = Event(u, upd, f, EntryCallback[f], <<Reply("ask_name"), Write("session")>>)
  /\ hist' = [hist EXCEPT ![u][f] = NoHist]
  /\ budget' = [budget EXCEPT !.starts = @ - 1]
  /\ UNCHANGED <<files, saved>>

\* a callback that stores update.message.text under key, prompts, returns next
StoreText(u, f, cb, key, prompt, next) ==
  \E t \in PlainTexts :
    /\ Dispatch(u, Text(t)) = <<f, cb>>
    /\ user_data' = SetField(u, f, key, t)
    /\ conversations' = UpdateState(u, f, next)
    /\ last' = Event(u, Text(t), f, cb, <<Write(key), Reply(prompt)>>)
    /\ budget' = SpendCancel(t)
    /\ UNCHANGED <<hist, files, saved>>

\* variant: the verification step is entered whatever send_otp returned
PhoneNextStateAlways(sent, phoneState, otpState) == otpState

\* the state complaint_phone, rti_phone, traffic_phone return
PhoneNextState(sent, phoneState, otpState) == IF sent THEN otpState ELSE phoneState

\* complaint_phone, rti_phone, traffic_phone
PhoneStep(u, f, cb, key, phoneState, otpState) ==
  \E raw_phone \in {kPhone, kPhoneZero} \cup (PlainTexts \ {kJane}), sent \in BOOLEAN :
    LET phone == normalize_phone_number(raw_phone)
        d1 == Put(Data(u, f), key, phone)
    IN
    /\ Dispatch(u, Text(raw_phone)) = <<f, cb>>
    /\ conversations' = UpdateState(u, f, PhoneNextState(sent, phoneState, otpState))
    /\ IF sent
         THEN /\ user_data' = SetSession(u, f, Put(d1, "otp_attempts", 0))
              /\ last' = Event(u, Text(raw_phone), f, cb,
                               <<Write(key), CallR("send_otp", TRUE),
                                 Write("otp_attempts"), Reply("otp_sent")>>)
         ELSE /\ user_data' = SetSession(u, f, d1)
              /\ last' = Event(u, Text(raw_phone), f, cb,
                               <<Write(key), CallR("send_otp", FALSE),
                                 Reply("otp_send_failed")>>)
    /\ budget' = SpendCancel(raw_phone)
    /\ UNCHANGED <<hist, files, saved>>

\* variant: attempts > 3
OtpExhaustedLate(attempts) == attempts > 3

\* attempts >= 3
OtpExhausted(attempts) == attempts >= 3

\* variant: the increment is missing
NextAttemptsStuck(d) == Get(d, "otp_attempts", 0)

\* attempts = data.get('otp_attempts', 0) + 1
NextAttempts(d) == Get(d, "otp_attempts", 0) + 1

\* variant: the attempt limit is tested before the result of verify_otp
OtpNextStateLimitFirst(valid, attempts, otpState, nextState) ==
  IF OtpExhausted(attempts) THEN END
  ELSE IF valid THEN nextState
  ELSE otpState

\* variant: a user who used up the attempts is let through
OtpNextStateLenient(valid, attempts, otpState, nextState) ==
  IF valid \/ OtpExhausted(attempts) THEN nextState ELSE otpState

\* the state complaint_otp, rti_otp, traffic_otp return for a code
OtpNextState(valid, attempts, otpState, nextState) ==
  IF valid THEN nextState
  ELSE IF OtpExhausted(attempts) THEN END
  ELSE otpState

\* variant: a resend is counted as an attempt
OtpResendCounted(u, f, cb, otpState) ==
  \E t \in {kResend, kResendCap}, sent \in BOOLEAN :
    /\ Dispatch(u, Text(t)) = <<f, cb>>
    /\ Lower(Strip(t)) = kResend
    /\ hist[u][f].resends < MaxResends
    /\ user_data' = SetField(u, f, "otp_attempts", NextAttempts(Data(u, f)))
    /\ conversations' = UpdateState(u, f, otpState)
    /\ last' = Event(u, Text(t), f, cb,
                     <<CallR("send_otp", sent),
                       Reply(IF sent THEN "otp_resent" ELSE "otp_resend_failed")>>)
    /\ hist' = [hist EXCEPT ![u][f].resends = @ + 1]
    /\ UNCHANGED <<budget, files, saved>>

\* variant: a resend starts the count of attempts again
OtpResendResets(u, f, cb, otpState) ==
  \E t \in {kResend, kResendCap}, sent \in BOOLEAN :
    /\ Dispatch(u, Text(t)) = <<f, cb>>
    /\ Lower(Strip(t)) = kResend
    /\ hist[u][f].resends < MaxResends
    /\ user_data' = SetField(u, f, "otp_attempts", 0)
    /\ conversations' = UpdateState(u, f, otpState)
    /\ last' = Event(u, Text(t), f, cb,
                     <<CallR("send_otp", sent),
                       Reply(IF sent THEN "otp_resent" ELSE "otp_resend_failed")>>)
    /\ hist' = [hist EXCEPT ![u][f].resends = @ + 1]
    /\ UNCHANGED <<budget, files, saved>>

\* the "resend" branch of complaint_otp, rti_otp, traffic_otp
OtpResend(u, f, cb, otpState) ==
  \E t \in {kResend, kResendCap}, sent \in BOOLEAN :
    /\ Dispatch(u, Text(t)) = <<f, cb>>
    /\ Lower(Strip(t)) = kResend
    /\ hist[u][f].resends < MaxResends
    /\ conversations' = UpdateState(u, f, otpState)
    /\ last' = Event(u, Text(t), f, cb,
                     <<CallR("send_otp", sent),
                       Reply(IF sent THEN "otp_resent" ELSE "otp_resend_failed")>>)
    /\ hist' = [hist EXCEPT ![u][f].resends = @ + 1]
    /\ UNCHANGED <<user_data, budget, files, saved>>

\* the code branch of complaint_otp, rti_otp, traffic_otp
OtpCheck(u, f, cb, otpState, nextState, nextPrompt) ==
  \E t \in {kCode, kCancel}, valid \in BOOLEAN :
    LET code == Strip(t)
        attempts == NextAttempts(Data(u, f))
        new_state == OtpNextState(valid, attempts, otpState, nextState)
        reply == IF valid THEN nextPrompt
                 ELSE IF OtpExhausted(attempts) THEN "otp_failed_restart"
                 ELSE "otp_incorrect"
    IN
    /\ Dispatch(u, Text(t)) = <<f, cb>>
    /\ Lower(code) # kResend
    /\ valid => IsDigit(code)
    /\ user_data' = SetField(u, f, "otp_attempts", attempts)
    /\ conversations' = UpdateState(u, f, new_state)
    /\ last' = Event(u, Text(t), f, cb,
                     <<Write("otp_attempts"), CallR("verify_otp", valid), Reply(reply)>>)
    /\ hist' = [hist EXCEPT ![u][f] =
                  [checks |-> @.checks + 1,
                   failed |-> IF valid THEN @.failed ELSE @.failed + 1,
                   verified |-> @.verified \/ valid,
                   resends |-> IF new_state = otpState THEN @.resends ELSE 0]]
    /\ UNCHANGED <<budget, files, saved>>

\* complaint_email, rti_email
EmailStep(u, f, cb, next) ==
  \E t \in {kSkipCap} \cup PlainTexts :
    LET email == Strip(t) IN
    /\ Dispatch(u, Text(t)) = <<f, cb>>
    /\ user_data' = IF Lower(email) # kSkip
                      THEN SetField(u, f, "email", email) ELSE user_data
    /\ conversations' = UpdateState(u, f, next)
    /\ last' = Event(u, Text(t), f, cb,
                     IF Lower(email) # kSkip
                       THEN <<Write("email"), Reply("ask_aadhaar")>>
                       ELSE <<Reply("ask_aadhaar")>>)
    /\ budget' = SpendCancel(t)
    /\ UNCHANGED <<hist, files, saved>>

(***************************************************************************)
(* Literals of the callbacks and values returned by collaborators.         *)
(***************************************************************************)
kImagePrefix == <<"i","m","a","g","e","/">>
kImagePng == <<"i","m","a","g","e","/","p","n","g">>
kTextPlain == <<"t","e","x","t","/","p","l","a","i","n">>
kExtPng == <<"P","N","G">>
kJpg == <<"j","p","g">>
kGeneralComplaint == <<"G","e","n","e","r","a","l"," ","C","o","m","p","l","a","i","n","t">>
kAdditionalDetails ==
  <<"\n","\n","A","d","d","i","t","i","o","n","a","l"," ","D","e","t","a","i","l","s",":"," ">>
kNearestStation ==
  <<"N","e","a","r","e","s","t"," ","P","o","l","i","c","e"," ","S","t","a","t","i","o","n"," ","i","n"," ">>
\* the label ai.send_message returns for the described incident
kTheftRaw == <<" ","T","h","e","f","t","\n">>
\* the text ai.get_applicable_laws returns
kLaws == <<"B","N","S"," ","3","0","3">>
kIllegalParking == <<"I","l","l","e","g","a","l"," ","P","a","r","k","i","n","g">>
kSkipLocation == <<"S","k","i","p"," ","L","o","c","a","t","i","o","n">>
kStamp == "20250101120000"

AcceptWords == {<<"y","e","s">>, <<"c","o","r","r","e","c","t">>, <<"o","k">>, <<"y">>}
DeclineWords == {<<"n","o">>, <<"s","k","i","p">>, <<"n","o","n","e">>}

\* variant: the path is assigned before the file is fetched
AfterFetchErrorPathSet(u, f, file_path) ==
  SetField(u, f, "aadhaar_photo_path", file_path)

\* the session dictionaries when get_file or download_to_drive raised: the
\* path is assigned only after the download returned
AfterFetchError(u, f, file_path) == user_data

\* variant: every file is taken, whatever type it declares
IsImageUploadAnyFile(upd) == upd.kind \in {"photo", "document"}

\* the update carries a photo, or a file whose declared type is an image
IsImageUpload(upd) ==
  \/ upd.kind = "photo"
  \/ /\ upd.kind = "document"
     /\ upd.mime # None
     /\ upd.mime # <<>>
     /\ StartsWith(upd.mime, kImagePrefix)

\* complaint_aadhaar, rti_aadhaar
AadhaarStep(u, f, cb, state, next, dir, prefix, cancelled) ==
  \E upd \in {Text(kCancelCap), Text(kJane), Photo, Document(kImagePng, kExtPng),
              Document(kImagePng, <<>>), Document(kTextPlain, kExtPng),
              Document(None, kExtPng)},
     fetch \in {"ok", "get_file_error", "download_error"} :
    LET accepted == IsImageUpload(upd)
        filename_suffix == IF upd.kind = "document" /\ Lower(upd.ext) # <<>>
                             THEN Lower(upd.ext) ELSE kJpg
        file_path == <<dir, prefix, u, kStamp, filename_suffix>>
    IN
    /\ Dispatch(u, upd) = <<f, cb>>
    /\ upd.kind = "text" \/ ~accepted => fetch = "ok"
    /\ IF upd.kind = "text" /\ Lower(upd.text) = kCancel
         THEN /\ conversations' = UpdateState(u, f, END)
              /\ last' = Event(u, upd, f, cb, <<Reply(cancelled)>>)
              /\ hist' = [hist EXCEPT ![u][f].resends = 0]
              /\ UNCHANGED <<user_data, files>>
       ELSE IF upd.kind = "text"
         THEN /\ conversations' = UpdateState(u, f, state)
              /\ last' = Event(u, upd, f, cb, <<Reply("aadhaar_required")>>)
              /\ UNCHANGED <<user_data, files, hist>>
       ELSE IF ~accepted
         THEN /\ conversations' = UpdateState(u, f, state)
              /\ last' = Event(u, upd, f, cb, <<Reply("aadhaar_as_image")>>)
              /\ UNCHANGED <<user_data, files, hist>>
       ELSE IF fetch = "get_file_error"
         THEN \* the callback raises: the handler keeps the state it had
              /\ last' = Event(u, upd, f, cb, <<CallR("get_file", "error")>>)
              /\ user_data' = AfterFetchError(u, f, file_path)
              /\ UNCHANGED <<conversations, files, hist>>
       ELSE IF fetch = "download_error"
         THEN /\ last' = Event(u, upd, f, cb,
                               <<Call("get_file"), CallR("download_to_drive", "error")>>)
              /\ user_data' = AfterFetchError(u, f, file_path)
              /\ UNCHANGED <<conversations, files, hist>>
       ELSE /\ files' = files \cup {file_path}
            /\ user_data' = SetField(u, f, "aadhaar_photo_path", file_path)
            /\ conversations' = UpdateState(u, f, next)
            /\ last' = Event(u, upd, f, cb,
                             <<Call("get_file"), Call("download_to_drive"),
                               Write("aadhaar_photo_path"), Reply("aadhaar_received")>>)
            /\ UNCHANGED hist
    /\ UNCHANGED <<budget, saved>>

\* database.db_setup.save_*: the row keeps the identity of the session and
\* the document path the dictionary held when it was saved
SavedRow(kind, d) ==
  [kind |-> kind, id |-> Len(saved) + 1, user_id |-> d["user_id"],
   pdf_path |-> Get(d, "pdf_path", None)]

(***************************************************************************)
(* Complaint flow.                                                         *)
(***************************************************************************)
complaint_start(u) ==
  StartFlow(u, "complaint", FreshSession(u, "complaint"), "COMPLAINT_NAME")

complaint_name(u) ==
  StoreText(u, "complaint", "complaint_name", "name", "ask_father_name",
            "COMPLAINT_FATHER_NAME")

complaint_father_name(u) ==
  StoreText(u, "complaint", "complaint_father_name", "father_name", "ask_age",
            "COMPLAINT_AGE")

complaint_age(u) ==
  StoreText(u, "complaint", "complaint_age", "age", "ask_phone", "COMPLAINT_PHONE")

complaint_phone(u) ==
  PhoneStep(u, "complaint", "complaint_phone", "phone", "COMPLAINT_PHONE",
            "COMPLAINT_OTP")

complaint_otp(u) ==
  \/ OtpResend(u, "complaint", "complaint_otp", "COMPLAINT_OTP")
  \/ OtpCheck(u, "complaint", "complaint_otp", "COMPLAINT_OTP", "COMPLAINT_EMAIL",
              "verified_ask_email")

complaint_email(u) ==
  EmailStep(u, "complaint", "complaint_email", "COMPLAINT_AADHAAR")

complaint_aadhaar(u) ==
  AadhaarStep(u, "complaint", "complaint_aadhaar", "COMPLAINT_AADHAAR",
              "COMPLAINT_ADDRESS", "AADHAAR_COMPLAINT_DIR", "aadhaar_complaint",
              "complaint_cancelled")

complaint_address(u) ==
  StoreText(u, "complaint", "complaint_address", "address", "ask_incident",
            "COMPLAINT_INITIAL_DESC")

\* variant: the except branch falls back to a suggestion of its own
AfterClassifyErrorSuggests(d) == Put(d, "suggested_type", kGeneralComplaint)

\* the session dictionary when ai.send_message raised: the except branch
\* assigns nothing
AfterClassifyError(d) == d

complaint_initial_description(u) ==
  \E description \in PlainTexts, ai \in {"ok", "error"} :
    LET upd == Text(description)
        d1 == Put(Data(u, "complaint"), "initial_description", description)
        label == Strip(kTheftRaw)
    IN
    /\ Dispatch(u, upd) = <<"complaint", "complaint_initial_description">>
    /\ IF ai = "ok"
         THEN /\ user_data' = SetSession(u, "complaint",
                                         Put(d1, "suggested_type", label))
              /\ last' = Event(u, upd, "complaint", "complaint_initial_description",
                               <<Write("initial_description"), Reply("analyzing"),
                                 Call("ai.send_message"), Write("suggested_type"),
                                 <<"reply", "suggest_type", label>> >>)
         ELSE /\ user_data' = SetSession(u, "complaint", AfterClassifyError(d1))
              /\ last' = Event(u, upd, "complaint", "complaint_initial_description",
                               <<Write("initial_description"), Reply("analyzing"),
                                 CallR("ai.send_message", "error"), Reply("ask_type")>>)
    /\ conversations' = UpdateState(u, "complaint", "COMPLAINT_TYPE")
    /\ budget' = SpendCancel(description)
    /\ UNCHANGED <<hist, files, saved>>

\* variant: an accepting word is stored like any other reply
ChosenTypeTyped(d, user_input) ==
  IF Lower(user_input) = kSkip THEN kGeneralComplaint ELSE user_input

\* the category complaint_type stores for the stripped reply user_input
ChosenType(d, user_input) ==
  IF Lower(user_input) \in AcceptWords
    THEN Get(d, "suggested_type", user_input)
  ELSE IF Lower(user_input) = kSkip THEN kGeneralComplaint
  ELSE user_input

complaint_type(u) ==
  \E t \in {kYes, kOkPadded, kSkipCap, kFraudPadded} \cup PlainTexts :
    LET user_input == Strip(t)
        chosen == ChosenType(Data(u, "complaint"), user_input)
    IN
    /\ Dispatch(u, Text(t)) = <<"complaint", "complaint_type">>
    /\ user_data' = SetField(u, "complaint", "complaint_type", chosen)
    /\ conversations' = UpdateState(u, "complaint", "COMPLAINT_DATE")
    /\ last' = Event(u, Text(t), "complaint", "complaint_type",
                     <<Write("complaint_type"), Reply("ask_date")>>)
    /\ budget' = SpendCancel(t)
    /\ UNCHANGED <<hist, files, saved>>

complaint_date(u) ==
  StoreText(u, "complaint", "complaint_date", "incident_date", "ask_location",
            "COMPLAINT_LOCATION")

complaint_location(u) ==
  StoreText(u, "complaint", "complaint_location", "incident_location",
            "ask_additional", "COMPLAINT_DESCRIPTION")

\* ai.get_applicable_laws: the text found, or an empty text when the lookup
\* failed
get_applicable_laws(outcome) == IF outcome = "ok" THEN kLaws ELSE <<>>

\* variant: a finalize that failed keeps the session at its last step
AfterFinalizeRetry(ok, state) == IF ok THEN END ELSE state

\* the state the last callback of a flow returns: END after the try block,
\* whether or not the block raised
AfterFinalize(ok, state) == END

\* variant: the legal basis is recorded only when the lookup gave a text
WithLawsWhenFound(d, applicable_laws) ==
  IF applicable_laws = <<>> THEN d ELSE Put(d, "applicable_laws", applicable_laws)

\* complaint_data['applicable_laws'] = applicable_laws, whatever was returned
WithLaws(d, applicable_laws) == Put(d, "applicable_laws", applicable_laws)

complaint_description(u) ==
  \E additional \in {kNo} \cup PlainTexts, laws \in {"ok", "failed"},
     pdf \in BOOLEAN, save \in BOOLEAN :
    LET upd == Text(additional)
        d0 == Data(u, "complaint")
        initial_desc == Get(d0, "initial_description", <<>>)
        final_description == IF Lower(additional) \in DeclineWords
                               THEN initial_desc
                               ELSE initial_desc \o kAdditionalDetails \o additional
        d1 == Put(d0, "description", final_description)
        ctype == Get(d1, "complaint_type", kGeneralComplaint)
        applicable_laws == get_applicable_laws(laws)
        d2 == WithLaws(d1, applicable_laws)
        d3 == Put(d2, "police_station", kNearestStation \o d2["incident_location"])
        pdf_path == <<"COMPLAINTS_DIR", "complaint", u, kStamp>>
        d4 == Put(d3, "pdf_path", pdf_path)
        row == SavedRow("complaint", d4)
        head == <<Write("description"), Reply("processing"),
                  IF laws = "ok" THEN Call("ai.get_applicable_laws")
                                 ELSE CallR("ai.get_applicable_laws", "error"),
                  Write("applicable_laws"), Write("police_station")>>
    IN
    /\ Dispatch(u, upd) = <<"complaint", "complaint_description">>
    /\ save => pdf
    /\ IF ~pdf
         THEN /\ user_data' = SetSession(u, "complaint", d3)
              /\ last' = Event(u, upd, "complaint", "complaint_description",
                               head \o <<CallR("create_complaint_pdf", "error"),
                                         Reply("error_generating_pdf")>>)
              /\ UNCHANGED <<files, saved>>
       ELSE IF ~save
         THEN /\ user_data' = SetSession(u, "complaint", d4)
              /\ files' = files \cup {pdf_path}
              /\ last' = Event(u, upd, "complaint", "complaint_description",
                               head \o <<Call("create_complaint_pdf"), Write("pdf_path"),
                                         CallR("save_complaint", "error"),
                                         Reply("error_generating_pdf")>>)
              /\ UNCHANGED saved
       ELSE /\ user_data' = SetSession(u, "complaint", d4)
            /\ files' = files \cup {pdf_path}
            /\ saved' = Append(saved, row)
            /\ last' = Event(u, upd, "complaint", "complaint_description",
                             head \o <<Call("create_complaint_pdf"), Write("pdf_path"),
                                       Call("save_complaint"),
                                       <<"reply", "summary", ctype, row.id>>,
                                       <<"reply", "document", pdf_path>> >>)
    /\ conversations' = UpdateState(u, "complaint",
                                    AfterFinalize(pdf /\ save, "COMPLAINT_DESCRIPTION"))
    /\ hist' = [hist EXCEPT ![u]["complaint"].resends = 0]
    /\ budget' = SpendCancel(additional)

(***************************************************************************)
(* RTI flow.                                                               *)
(***************************************************************************)
rti_start(u) ==
  StartFlow(u, "rti", FreshSession(u, "rti"), "RTI_NAME")

rti_name(u) == StoreText(u, "rti", "rti_name", "name", "ask_phone", "RTI_PHONE")

rti_phone(u) == PhoneStep(u, "rti", "rti_phone", "phone", "RTI_PHONE", "RTI_OTP")

rti_otp(u) ==
  \/ OtpResend(u, "rti", "rti_otp", "RTI_OTP")
  \/ OtpCheck(u, "rti", "rti_otp", "RTI_OTP", "RTI_EMAIL", "verified_ask_email")

rti_email(u) == EmailStep(u, "rti", "rti_email", "RTI_AADHAAR")

rti_aadhaar(u) ==
  AadhaarStep(u, "rti", "rti_aadhaar", "RTI_AADHAAR", "RTI_ADDRESS",
              "AADHAAR_RTI_DIR", "aadhaar_rti", "rti_cancelled")

rti_address(u) ==
  StoreText(u, "rti", "rti_address", "address", "ask_department", "RTI_DEPARTMENT")

rti_department(u) ==
  StoreText(u, "rti", "rti_department", "department", "ask_information", "RTI_INFO")

rti_info(u) ==
  StoreText(u, "rti", "rti_info", "information_sought", "ask_purpose", "RTI_PURPOSE")

rti_purpose(u) ==
  \E purpose \in {kSkipCap} \cup PlainTexts, pdf \in BOOLEAN, save \in BOOLEAN :
    LET upd == Text(purpose)
        d0 == Data(u, "rti")
        d1 == IF Lower(purpose) # kSkip THEN Put(d0, "purpose", purpose) ELSE d0
        pdf_path == <<"RTI_DIR", "rti", u, kStamp>>
        d2 == Put(d1, "pdf_path", pdf_path)
        row == SavedRow("rti", d2)
        head == (IF Lower(purpose) # kSkip THEN <<Write("purpose")>> ELSE <<>>)
                \o <<Reply("generating")>>
    IN
    /\ Dispatch(u, upd) = <<"rti", "rti_purpose">>
    /\ save => pdf
    /\ IF ~pdf
         THEN /\ user_data' = SetSession(u, "rti", d1)
              /\ last' = Event(u, upd, "rti", "rti_purpose",
                               head \o <<CallR("create_rti_pdf", "error"),
                                         Reply("error_generating_pdf")>>)
              /\ UNCHANGED <<files, saved>>
       ELSE IF ~save
         THEN /\ user_data' = SetSession(u, "rti", d2)
              /\ files' = files \cup {pdf_path}
              /\ last' = Event(u, upd, "rti", "rti_purpose",
                               head \o <<Call("create_rti_pdf"), Write("pdf_path"),
                                         CallR("save_rti_request", "error"),
                                         Reply("error_generating_pdf")>>)
              /\ UNCHANGED saved
       ELSE /\ user_data' = SetSession(u, "rti", d2)
            /\ files' = files \cup {pdf_path}
            /\ saved' = Append(saved, row)
            /\ last' = Event(u, upd, "rti", "rti_purpose",
                             head \o <<Call("create_rti_pdf"), Write("pdf_path"),
                                       Call("save_rti_request"),
                                       <<"reply", "summary", d2["department"], row.id>>,
                                       <<"reply", "document", pdf_path>> >>)
    /\ conversations' = UpdateState(u, "rti", AfterFinalize(pdf /\ save, "RTI_PURPOSE"))
    /\ hist' = [hist EXCEPT ![u]["rti"].resends = 0]
    /\ budget' = SpendCancel(purpose)

(***************************************************************************)
(* Traffic violation flow.                                                 *)
(***************************************************************************)
traffic_start(u) ==
  StartFlow(u, "traffic", FreshSession(u, "traffic"), "TRAFFIC_NAME")

traffic_name(u) ==
  StoreText(u, "traffic", "traffic_name", "reporter_name", "ask_phone",
            "TRAFFIC_PHONE")

traffic_phone(u) ==
  PhoneStep(u, "traffic", "traffic_phone", "reporter_phone", "TRAFFIC_PHONE",
            "TRAFFIC_OTP")

traffic_otp(u) ==
  \/ OtpResend(u, "traffic", "traffic_otp", "TRAFFIC_OTP")
  \/ OtpCheck(u, "traffic", "traffic_otp", "TRAFFIC_OTP", "TRAFFIC_VEHICLE",
              "verified_ask_vehicle")

traffic_vehicle(u) ==
  StoreText(u, "traffic", "traffic_vehicle", "vehicle_number",
            "ask_violation_type", "TRAFFIC_TYPE")

traffic_type(u) ==
  \E t \in {kIllegalParking} \cup PlainTexts :
    /\ Dispatch(u, Text(t)) = <<"traffic", "traffic_type">>
    /\ user_data' = SetField(u, "traffic", "violation_type", t)
    /\ conversations' = UpdateState(u, "traffic", "TRAFFIC_LOCATION")
    /\ last' = Event(u, Text(t), "traffic", "traffic_type",
                     <<Write("violation_type"), Reply("ask_where")>>)
    /\ budget' = SpendCancel(t)
    /\ UNCHANGED <<hist, files, saved>>

\* the coordinates of a shared location
kLatitude == 17
kLongitude == 82

traffic_location(u) ==
  \E upd \in {Location} \cup {Text(t) : t \in {kSkipLocation} \cup PlainTexts} :
    LET d0 == Data(u, "traffic")
        d1 == IF upd.kind = "location"
                THEN Put(Put(Put(d0, "latitude", kLatitude), "longitude", kLongitude),
                         "location", <<"Lat: ", kLatitude, ", Lng: ", kLongitude>>)
                ELSE Put(d0, "location", upd.text)
    IN
    /\ Dispatch(u, upd) = <<"traffic", "traffic_location">>
    /\ user_data' = SetSession(u, "traffic", d1)
    /\ conversations' = UpdateState(u, "traffic", "TRAFFIC_PHOTO")
    /\ last' = Event(u, upd, "traffic", "traffic_location",
                     IF upd.kind = "location"
                       THEN <<Write("latitude"), Write("longitude"), Write("location"),
                              Reply("ask_photo")>>
                       ELSE <<Write("location"), Reply("ask_photo")>>)
    /\ budget' = SpendCancel(upd.text)
    /\ UNCHANGED <<hist, files, saved>>

traffic_photo(u) ==
  \E upd \in {Photo, Text(kSkipCap), Text(kCancel)},
     fetch \in {"ok", "get_file_error", "download_error"} :
    LET photo_path == <<"TRAFFIC_DIR", "traffic", u, kStamp, kJpg>> IN
    /\ Dispatch(u, upd) = <<"traffic", "traffic_photo">>
    /\ upd.kind = "text" => fetch = "ok"
    /\ IF upd.kind = "text"
         THEN /\ conversations' = UpdateState(u, "traffic", "TRAFFIC_DESC")
              /\ last' = Event(u, upd, "traffic", "traffic_photo",
                               <<Reply("ask_description")>>)
              /\ UNCHANGED <<user_data, files>>
       ELSE IF fetch = "get_file_error"
         THEN /\ last' = Event(u, upd, "traffic", "traffic_photo",
                               <<CallR("get_file", "error")>>)
              /\ user_data' = AfterFetchError(u, "traffic", photo_path)
              /\ UNCHANGED <<conversations, files>>
       ELSE IF fetch = "download_error"
         THEN /\ last' = Event(u, upd, "traffic", "traffic_photo",
                               <<Call("get_file"), CallR("download_to_drive", "error")>>)
              /\ user_data' = AfterFetchError(u, "traffic", photo_path)
              /\ UNCHANGED <<conversations, files>>
       ELSE /\ files' = files \cup {photo_path}
            /\ user_data' = SetField(u, "traffic", "photo_path", photo_path)
            /\ conversations' = UpdateState(u, "traffic", "TRAFFIC_DESC")
            /\ last' = Event(u, upd, "traffic", "traffic_photo",
                             <<Call("get_file"), Call("download_to_drive"),
                               Write("photo_path"), Reply("ask_description")>>)
    /\ UNCHANGED <<hist, budget, saved>>

traffic_desc(u) ==
  \E desc \in {kNo} \cup PlainTexts, save \in BOOLEAN, pdf \in BOOLEAN :
    LET upd == Text(desc)
        d0 == Data(u, "traffic")
        stored == Lower(desc) \notin {<<"n","o">>, kSkip}
        d1 == IF stored THEN Put(d0, "description", desc) ELSE d0
        row == SavedRow("traffic", d1)
        pdf_path == <<"storage/traffic_violations", "traffic_violation", u, kStamp>>
        head == (IF stored THEN <<Write("description")>> ELSE <<>>)
                \o <<Reply("submitting")>>
    IN
    /\ Dispatch(u, upd) = <<"traffic", "traffic_desc">>
    /\ pdf => save
    /\ user_data' = SetSession(u, "traffic", d1)
    /\ IF ~save
         THEN /\ last' = Event(u, upd, "traffic", "traffic_desc",
                               head \o <<CallR("save_traffic_violation", "error"),
                                         Reply("error_submitting")>>)
              /\ UNCHANGED <<files, saved>>
       ELSE IF ~pdf
         THEN /\ saved' = Append(saved, row)
              /\ last' = Event(u, upd, "traffic", "traffic_desc",
                               head \o <<Call("save_traffic_violation"),
                                         CallR("create_traffic_violation_pdf", "error"),
                                         Reply("error_submitting")>>)
              /\ UNCHANGED files
       ELSE /\ saved' = Append(saved, row)
            /\ files' = files \cup {pdf_path}
            /\ last' = Event(u, upd, "traffic", "traffic_desc",
                             head \o <<Call("save_traffic_violation"),
                                       Call("create_traffic_violation_pdf"),
                                       <<"reply", "summary", d1["violation_type"], row.id>>,
                                       <<"reply", "document", pdf_path>> >>)
    /\ conversations' = UpdateState(u, "traffic", AfterFinalize(pdf /\ save, "TRAFFIC_DESC"))
    /\ hist' = [hist EXCEPT ![u]["traffic"].resends = 0]
    /\ budget' = SpendCancel(desc)

(***************************************************************************)
(* Fallback and the handlers outside the conversations.                    *)
(***************************************************************************)
\* variant: the fallback replies but returns no END
cancelKeepsState(u) ==
  \E f \in FlowKeys :
    /\ Dispatch(u, Command("cancel")) = <<f, "cancel">>
    /\ last' = Event(u, Command("cancel"), f, "cancel", <<Reply("operation_cancelled")>>)
    /\ UNCHANGED <<conversations, user_data, hist, budget, files, saved>>

\* /cancel, the fallback of each conversation
cancel(u) ==
  \E f \in FlowKeys :
    /\ Dispatch(u, Command("cancel")) = <<f, "cancel">>
    /\ conversations' = UpdateState(u, f, END)
    /\ last' = Event(u, Command("cancel"), f, "cancel", <<Reply("operation_cancelled")>>)
    /\ hist' = [hist EXCEPT ![u][f].resends = 0]
    /\ UNCHANGED <<user_data, budget, files, saved>>

\* handle_message, handle_photo, handle_location: no session is touched
general(u) ==
  \E upd \in {Text(kCode), Photo, Location} :
    /\ u \in budget.users
    /\ Dispatch(u, upd)[1] = "app"
    /\ Dispatch(u, upd)[2] \notin {"none", "queued"}
    /\ last' = Event(u, upd, "app", Dispatch(u, upd)[2],
                     CASE Dispatch(u, upd)[2] = "handle_message" ->
                            <<Call("ai.send_message"), Reply("answer")>>
                       [] Dispatch(u, upd)[2] = "handle_photo" ->
                            <<Reply("photo_received")>>
                       [] OTHER -> <<Reply("location_received"), Call("places_nearby"),
                                     Reply("police_stations")>>)
    /\ UNCHANGED <<conversations, user_data, hist, budget, files, saved>>

\* an update no registered handler accepts is dropped
unhandled(u) ==
  \E upd \in {Command("complaint"), Command("rti"), Command("traffic")} :
    /\ u \in budget.users
    /\ Dispatch(u, upd) = <<"app", "none">>
    /\ last' = Event(u, upd, "app", "none", <<>>)
    /\ UNCHANGED <<conversations, user_data, hist, budget, files, saved>>

Next ==
  \E u \in Users :
    \/ complaint_start(u) \/ complaint_name(u) \/ complaint_father_name(u)
    \/ complaint_age(u) \/ complaint_phone(u) \/ complaint_otp(u)
    \/ complaint_email(u) \/ complaint_aadhaar(u) \/ complaint_address(u)
    \/ complaint_initial_description(u) \/ complaint_type(u) \/ complaint_date(u)
    \/ complaint_location(u) \/ complaint_description(u)
    \/ rti_start(u) \/ rti_name(u) \/ rti_phone(u) \/ rti_otp(u) \/ rti_email(u)
    \/ rti_aadhaar(u) \/ rti_address(u) \/ rti_department(u) \/ rti_info(u)
    \/ rti_purpose(u)
    \/ traffic_start(u) \/ traffic_name(u) \/ traffic_phone(u) \/ traffic_otp(u)
    \/ traffic_vehicle(u) \/ traffic_type(u) \/ traffic_location(u)
    \/ traffic_photo(u) \/ traffic_desc(u)
    \/ cancel(u) \/ general(u) \/ unhandled(u)

Spec == Init /\ [][Next]_vars

SpecCancelText == InitCancelText /\ [][Next]_vars

(***************************************************************************)
(* Vocabulary of the properties.                                           *)
(***************************************************************************)
FirstState == [f \in FlowKeys |-> FlowStates[f][1]]

PhoneState ==
  [f \in FlowKeys |->
     CASE f = "complaint" -> "COMPLAINT_PHONE"
       [] f = "rti" -> "RTI_PHONE"
       [] OTHER -> "TRAFFIC_PHONE"]

PhoneKey == [f \in FlowKeys |-> IF f = "traffic" THEN "reporter_phone" ELSE "phone"]

OtpState ==
  [f \in FlowKeys |->
     CASE f = "complaint" -> "COMPLAINT_OTP"
       [] f = "rti" -> "RTI_OTP"
       [] OTHER -> "TRAFFIC_OTP"]

\* the state each *_otp callback returns when verify_otp accepted the code
AfterOtp ==
  [f \in FlowKeys |->
     CASE f = "complaint" -> "COMPLAINT_EMAIL"
       [] f = "rti" -> "RTI_EMAIL"
       [] OTHER -> "TRAFFIC_VEHICLE"]

CallbackOf(f, state) == FlowCallbacks[f][StateIndex(f, state)]

\* the value of otp_attempts as the callbacks read it
Attempts(ud, u, f) == Get(ud[u][f], "otp_attempts", 0)

\* the value the call `name` returned during event e
Result(e, name) ==
  SelectSeq(e.log, LAMBDA x : x[1] = "call" /\ x[2] = name)[1][3]

\* event e is an update of user u handled by the phone callback of flow f
IsPhone(e, u, f) ==
  e.user = u /\ e.flow = f /\ e.callback = CallbackOf(f, PhoneState[f])

\* event e is "resend", in any letter case, at the verification step of f
IsResend(e, u, f) ==
  /\ e.user = u /\ e.flow = f /\ e.callback = CallbackOf(f, OtpState[f])
  /\ Lower(Strip(e.upd.text)) = kResend

\* event e is any other input at the verification step of f
IsCode(e, u, f) ==
  /\ e.user = u /\ e.flow = f /\ e.callback = CallbackOf(f, OtpState[f])
  /\ Lower(Strip(e.upd.text)) # kResend

\* position of entry x in the log of e (0 when absent)
Position(e, x) ==
  IF \E i \in 1..Len(e.log) : e.log[i] = x
    THEN CHOOSE i \in 1..Len(e.log) : e.log[i] = x
    ELSE 0

(***************************************************************************)
(* C1  In each flow, once three inputs at the verification step have       *)
(* failed verify_otp the conversation of that session is over, and no      *)
(* further verify_otp call is made in it: a session never sees more than   *)
(* three verify_otp calls, and a later code goes to no *_otp callback.     *)
(***************************************************************************)
C1_NoFourthCheck ==
  \A u \in Users, f \in FlowKeys :
    /\ hist[u][f].checks <= 3
    /\ hist[u][f].failed = 3 =>
         /\ conversations[u][f] = NoState
         /\ hist[u][f].checks = 3
         /\ ~hist[u][f].verified

\* three failed checks, and the code typed next reached handle_message
C1_Witness ==
  \E u \in Users, f \in FlowKeys :
    /\ hist[u][f].failed = 3
    /\ hist[u][f].checks = 3
    /\ conversations[u][f] = NoState
    /\ last.user = u
    /\ last.upd = Text(kCode)
    /\ last.callback = "handle_message"

(***************************************************************************)
(* C2  "resend" in any letter case at the verification step calls          *)
(* send_otp again and leaves the step and the session dictionary (so the   *)
(* attempt counter) as they were, whatever send_otp returns; five resends  *)
(* followed by one wrong code leave the session at the verification step   *)
(* with otp_attempts = 1.                                                  *)
(***************************************************************************)
C2_ResendFrame ==
  [][\A u \in Users, f \in FlowKeys :
       /\ IsResend(last', u, f) =>
            /\ conversations' = conversations
            /\ user_data' = user_data
            /\ Len(Calls(last')) = 1
            /\ Calls(last')[1][2] = "send_otp"
       /\ ( /\ IsCode(last', u, f)
            /\ ~Result(last', "verify_otp")
            /\ hist[u][f].resends = 5
            /\ hist[u][f].checks = 0 ) =>
            /\ conversations'[u][f] = OtpState[f]
            /\ Attempts(user_data', u, f) = 1]_vars

\* five resends, then a wrong code: still at the verification step
C2_Witness ==
  \E u \in Users, f \in FlowKeys :
    /\ hist[u][f].resends = 5
    /\ hist[u][f].checks = 1
    /\ hist[u][f].failed = 1
    /\ IsCode(last, u, f)
    /\ conversations[u][f] = OtpState[f]
    /\ Attempts(user_data, u, f) = 1

(***************************************************************************)
(* C3  Every other input at the verification step adds one to otp_attempts *)
(* before verify_otp is called, also when the code is right; an accepted   *)
(* code moves to the step after verification, a rejected one stays at the  *)
(* verification step while the counter is below 3 and ends the             *)
(* conversation when it is 3 or more.                                      *)
(***************************************************************************)
C3_CountThenCheck ==
  [][\A u \in Users, f \in FlowKeys :
       IsCode(last', u, f) =>
         LET before == Attempts(user_data, u, f)
             after == Attempts(user_data', u, f)
             valid == Result(last', "verify_otp")
         IN
         /\ after = before + 1
         /\ Position(last', Write("otp_attempts")) > 0
         /\ Position(last', Write("otp_attempts"))
              < Position(last', CallR("verify_otp", valid))
         /\ valid => conversations'[u][f] = AfterOtp[f]
         /\ (~valid /\ after < 3) => conversations'[u][f] = OtpState[f]
         /\ (~valid /\ after >= 3) => conversations'[u][f] = NoState]_vars

\* a right code on the first try was counted as attempt 1
C3_Witness ==
  \E u \in Users, f \in FlowKeys :
    /\ IsCode(last, u, f)
    /\ Result(last, "verify_otp")
    /\ Attempts(user_data, u, f) = 1
    /\ conversations[u][f] = AfterOtp[f]

(***************************************************************************)
(* C4  After exactly two rejected codes in a session, a third input that   *)
(* verify_otp accepts moves the session to the step after verification,    *)
(* although otp_attempts has reached 3.                                    *)
(***************************************************************************)
C4_LateSuccess ==
  [][\A u \in Users, f \in FlowKeys :
       ( /\ IsCode(last', u, f)
         /\ Result(last', "verify_otp")
         /\ hist[u][f].failed = 2
         /\ hist[u][f].checks = 2 ) =>
         /\ conversations'[u][f] = AfterOtp[f]
         /\ Attempts(user_data', u, f) = 3]_vars

\* two rejected codes, then an accepted one
C4_Witness ==
  \E u \in Users, f \in FlowKeys :
    /\ IsCode(last, u, f)
    /\ hist[u][f].failed = 2
    /\ hist[u][f].checks = 3
    /\ hist[u][f].verified
    /\ Attempts(user_data, u, f) = 3
    /\ conversations[u][f] = AfterOtp[f]

(***************************************************************************)
(* C5  At the phone step of each flow, when send_otp returns False the     *)
(* session stays at the phone step, the user is asked to enter the number  *)
(* again and otp_attempts keeps its value; the verification step is        *)
(* entered only by a phone event whose send_otp returned True.             *)
(***************************************************************************)
C5_SendFailureStays ==
  [][\A u \in Users, f \in FlowKeys :
       /\ (IsPhone(last', u, f) /\ ~Result(last', "send_otp")) =>
            /\ conversations'[u][f] = PhoneState[f]
            /\ Replies(last') = <<Reply("otp_send_failed")>>
            /\ Attempts(user_data', u, f) = Attempts(user_data, u, f)
       /\ (conversations[u][f] # OtpState[f] /\ conversations'[u][f] = OtpState[f]) =>
            /\ IsPhone(last', u, f)
            /\ Result(last', "send_otp")]_vars

\* a number was entered, send_otp failed, the session waits for a number
C5_Witness ==
  \E u \in Users, f \in FlowKeys :
    /\ IsPhone(last, u, f)
    /\ ~Result(last, "send_otp")
    /\ conversations[u][f] = PhoneState[f]
    /\ PhoneKey[f] \in DOMAIN user_data[u][f]

\* event e is the flow-start command of f, sent by user u
IsStart(e, u, f) == e.user = u /\ e.upd = Command(EntryCommand[f])

\* dictionary d without the keys in K
Without(d, K) == [k \in (DOMAIN d) \ K |-> d[k]]

\* event e is an update of user u; a step of Next always records its event
\* in last, so last' describes the update the step processed
From(e, u) == e.user = u

\* after the step the session of u in f is still at the step it was at
SameStep(u, f) ==
  /\ conversations[u][f] # NoState
  /\ conversations'[u][f] = conversations[u][f]

(***************************************************************************)
(* C6  An update after which the session is still at the same step leaves  *)
(* every field of the session dictionary as it was, the attempt counter    *)
(* excepted.  Violated: complaint_phone, rti_phone and traffic_phone store *)
(* the number before send_otp is called, so a failed send leaves the       *)
(* session at the phone step with the phone field changed.                 *)
(***************************************************************************)
C6_SelfLoopKeepsFields ==
  [][\A u \in Users, f \in FlowKeys :
       (From(last', u) /\ SameStep(u, f)) =>
         Without(user_data'[u][f], {"otp_attempts"})
           = Without(user_data[u][f], {"otp_attempts"})]_vars

(***************************************************************************)
(* C7  A flow-start command received while a session of that flow is in    *)
(* progress puts the conversation at the first step and replaces the       *)
(* session dictionary by a fresh one.  Violated: the conversation handlers *)
(* are built without allow_reentry, so the command reaches no callback and *)
(* the session stays at its step with its fields.                          *)
(***************************************************************************)
C7_StartAlwaysResets ==
  [][\A u \in Users, f \in FlowKeys :
       (IsStart(last', u, f) /\ conversations[u][f] # NoState) =>
         /\ conversations'[u][f] = FirstState[f]
         /\ user_data'[u][f] = FreshSession(u, f)]_vars

\* the conversation handlers in the order main() adds them
FlowOrder == <<"complaint", "rti", "traffic">>

\* u has a conversation in progress, and f is the first handler holding one
FirstActive(u, f) ==
  \E i \in 1..Len(FlowOrder) :
    /\ FlowOrder[i] = f
    /\ conversations[u][f] # NoState
    /\ \A j \in 1..(i - 1) : conversations[u][FlowOrder[j]] = NoState

\* the replies that acknowledge a cancellation
CancelReplies ==
  {Reply("operation_cancelled"), Reply("complaint_cancelled"), Reply("rti_cancelled")}

Acknowledged(e) == \E i \in 1..Len(e.log) : e.log[i] \in CancelReplies

\* event e is the /cancel command of user u
IsCancelCommand(e, u) == e.user = u /\ e.upd = Command("cancel")

\* event e is the word "cancel", in any letter case, typed by user u
IsCancelText(e, u) ==
  e.user = u /\ e.upd.kind = "text" /\ Lower(e.upd.text) = kCancel

\* the step of f takes free text
TakesText(u, f) ==
  conversations[u][f] # NoState /\ "text" \in StateFilter(conversations[u][f])

(***************************************************************************)
(* C8  as stated: at every step that takes free text, in all three flows,  *)
(* a cancellation keyword (the /cancel command or the word "cancel") ends  *)
(* the conversation in that event, with an acknowledgement and without     *)
(* being stored.  The word "cancel" is recognised by the attachment step   *)
(* only; complaint_name and the other text steps store it.                 *)
(***************************************************************************)
C8_Original ==
  [][\A u \in Users, f \in FlowKeys :
       ( /\ IsCancelCommand(last', u) \/ IsCancelText(last', u)
         /\ FirstActive(u, f)
         /\ TakesText(u, f) ) =>
         /\ conversations'[u][f] = NoState
         /\ Acknowledged(last')
         /\ user_data' = user_data]_vars

(***************************************************************************)
(* C8  as amended: at every step of the three flows the /cancel command    *)
(* ends the conversation in that event, with an acknowledgement and with   *)
(* the session dictionary untouched; the word "cancel" typed as text does  *)
(* so at the attachment step of the complaint and rti flows only, and at   *)
(* every other text step it is handled by the step's callback as ordinary  *)
(* input, with no acknowledgement of a cancellation.                       *)
(***************************************************************************)
C8_CancelCommandEnds ==
  [][\A u \in Users, f \in FlowKeys :
       /\ (IsCancelCommand(last', u) /\ FirstActive(u, f)) =>
            /\ last'.flow = f
            /\ last'.callback = "cancel"
            /\ conversations'[u][f] = NoState
            /\ Replies(last') = <<Reply("operation_cancelled")>>
            /\ user_data' = user_data
       /\ (IsCancelText(last', u) /\ FirstActive(u, f) /\ TakesText(u, f)) =>
            /\ last'.flow = f
            /\ last'.callback = CallbackOf(f, conversations[u][f])
            /\ IF conversations[u][f] \in {"COMPLAINT_AADHAAR", "RTI_AADHAAR"}
                 THEN /\ conversations'[u][f] = NoState
                      /\ Acknowledged(last')
                      /\ user_data' = user_data
                 ELSE ~Acknowledged(last')]_vars

\* "cancel" was typed as the name and stored; /cancel then ended the session
C8_Witness ==
  \E u \in Users, f \in FlowKeys :
    /\ IsCancelCommand(last, u)
    /\ last.flow = f
    /\ Acknowledged(last)
    /\ conversations[u][f] = NoState
    /\ \E k \in {"name", "reporter_name"} :
         k \in DOMAIN user_data[u][f] /\ user_data[u][f][k] = kCancel

(***************************************************************************)
(* C9  The flow-start command that follows a session ended by              *)
(* cancellation, by exhausted verification or by completion begins a       *)
(* session at the first step whose dictionary holds nothing collected by   *)
(* the ended one: the user identity and, where the flow keeps them, an     *)
(* empty attachment path and an attempt counter of 0.                      *)
(***************************************************************************)
C9_FreshAfterEnd ==
  [][\A u \in Users, f \in FlowKeys :
       (From(last', u) /\ last'.callback = EntryCallback[f]) =>
         LET d == user_data'[u][f] IN
         /\ conversations'[u][f] = FirstState[f]
         /\ DOMAIN d \subseteq {"user_id", "aadhaar_photo_path", "otp_attempts"}
         /\ d["user_id"] = u
         /\ Get(d, "aadhaar_photo_path", None) = None
         /\ Get(d, "otp_attempts", 0) = 0
         /\ hist'[u][f] = NoHist]_vars

\* a session was completed and saved, and the same flow was started again
C9_Witness ==
  \E u \in Users, f \in FlowKeys :
    /\ From(last, u)
    /\ last.callback = EntryCallback[f]
    /\ \E i \in 1..Len(saved) : saved[i].kind = f /\ saved[i].user_id = u
    /\ conversations[u][f] = FirstState[f]
    /\ user_data[u][f] = FreshSession(u, f)

\* event e ended the conversation of flow f: the last step ran, a
\* cancellation was acknowledged, or verification was given up
IsTerminal(e, u, f) ==
  /\ e.user = u
  /\ e.flow = f
  /\ \/ e.callback = FlowCallbacks[f][Len(FlowCallbacks[f])]
     \/ Acknowledged(e)
     \/ \E i \in 1..Len(e.log) : e.log[i] = Reply("otp_failed_restart")

(***************************************************************************)
(* C10  After the event that ends a session (completion, cancellation,     *)
(* exhausted verification) no record of that user and flow remains in the  *)
(* store.  Violated: the callbacks return END, which removes the           *)
(* conversation key, but none deletes context.user_data[flow], so the      *)
(* collected fields stay until a later flow-start replaces them.           *)
(***************************************************************************)
C10_RecordRemoved ==
  \A u \in Users, f \in FlowKeys :
    (IsTerminal(last, u, f) /\ conversations[u][f] = NoState) =>
      f \notin DOMAIN user_data[u]

\* event e was handled by callback cb for user u
HandledBy(e, u, cb) == e.user = u /\ e.callback = cb

kTheft == <<"T","h","e","f","t">>
kFraud == <<"F","r","a","u","d">>

(***************************************************************************)
(* C11  At the category step of the complaint flow a reply that is "yes",  *)
(* "correct", "ok" or "y" in any letter case stores the category the       *)
(* classification suggested, "skip" stores "General Complaint", and any    *)
(* other reply is stored itself; each of the three advances the session    *)
(* to the incident-date step.  The reply is compared and stored with its   *)
(* surrounding whitespace stripped.                                        *)
(***************************************************************************)
C11_CategoryBranch ==
  [][\A u \in Users :
       HandledBy(last', u, "complaint_type") =>
         LET reply == Strip(last'.upd.text)
             d == user_data[u]["complaint"]
             stored == user_data'[u]["complaint"]["complaint_type"]
         IN
         /\ conversations'[u]["complaint"] = "COMPLAINT_DATE"
         /\ Without(user_data'[u]["complaint"], {"complaint_type"})
              = Without(d, {"complaint_type"})
         /\ (Lower(reply) \in {<<"y","e","s">>, <<"c","o","r","r","e","c","t">>,
                               <<"o","k">>, <<"y">>}
               /\ "suggested_type" \in DOMAIN d) =>
              stored = d["suggested_type"] /\ stored = kTheft
         /\ Lower(reply) = <<"s","k","i","p">> =>
              stored = <<"G","e","n","e","r","a","l"," ","C","o","m","p","l","a","i","n","t">>
         /\ last'.upd.text = kJane => stored = kJane
         /\ last'.upd.text = kFraudPadded => stored = kFraud]_vars

\* the suggestion "Theft" was accepted with " OK " and stored
C11_Witness ==
  \E u \in Users :
    /\ HandledBy(last, u, "complaint_type")
    /\ last.upd.text = kOkPadded
    /\ user_data[u]["complaint"]["suggested_type"] = kTheft
    /\ user_data[u]["complaint"]["complaint_type"] = kTheft
    /\ conversations[u]["complaint"] = "COMPLAINT_DATE"

\* log entry x is a collaborator call that failed: send_otp and verify_otp
\* report it by returning False, the others by raising
CallFailed(x) ==
  /\ x[1] = "call"
  /\ Len(x) = 3
  /\ IF x[2] \in {"send_otp", "verify_otp"} THEN x[3] = FALSE ELSE x[3] = "error"

\* the call of collaborator name made while handling e failed
Failed(e, name) ==
  \E i \in 1..Len(e.log) : e.log[i][2] = name /\ CallFailed(e.log[i])

\* a reply with tag was sent while handling e
Sent(e, tag) == \E i \in 1..Len(e.log) : e.log[i][1] = "reply" /\ e.log[i][2] = tag

(***************************************************************************)
(* C12  When ai.send_message raises at the incident-description step of    *)
(* the complaint flow, the description is stored, no suggestion is stored  *)
(* or shown, and the session is at the category step with the manual       *)
(* prompt; from there a typed category is stored as on the path with a     *)
(* suggestion, and the last step completes the session with that category  *)
(* in the record and in the summary.                                       *)
(***************************************************************************)
C12_ClassifierErrorFallsBack ==
  [][\A u \in Users :
       LET d == user_data[u]["complaint"]
           dn == user_data'[u]["complaint"]
       IN
       /\ ( /\ HandledBy(last', u, "complaint_initial_description")
            /\ Failed(last', "ai.send_message") ) =>
              /\ dn = Put(d, "initial_description", last'.upd.text)
              /\ "suggested_type" \notin DOMAIN dn
              /\ Replies(last') = <<Reply("analyzing"), Reply("ask_type")>>
              /\ conversations'[u]["complaint"] = "COMPLAINT_TYPE"
       /\ ( /\ HandledBy(last', u, "complaint_type")
            /\ "suggested_type" \notin DOMAIN d
            /\ Lower(Strip(last'.upd.text)) # kSkip ) =>
              /\ dn = Put(d, "complaint_type", Strip(last'.upd.text))
              /\ conversations'[u]["complaint"] = "COMPLAINT_DATE"
       /\ ( /\ HandledBy(last', u, "complaint_description")
            /\ "suggested_type" \notin DOMAIN d
            /\ ~Failed(last', "create_complaint_pdf")
            /\ ~Failed(last', "save_complaint") ) =>
              /\ conversations'[u]["complaint"] = NoState
              /\ Len(saved') = Len(saved) + 1
              /\ dn["complaint_type"] = d["complaint_type"]
              /\ \E i \in 1..Len(last'.log) :
                   last'.log[i] = <<"reply", "summary", d["complaint_type"], Len(saved')>>]_vars

\* the classification failed, "Jane" was typed as the category, and the
\* session was completed and saved with it
C12_Witness ==
  \E u \in Users :
    /\ HandledBy(last, u, "complaint_description")
    /\ "suggested_type" \notin DOMAIN user_data[u]["complaint"]
    /\ user_data[u]["complaint"]["complaint_type"] = kJane
    /\ Sent(last, "summary")
    /\ saved # <<>>
    /\ conversations[u]["complaint"] = NoState

\* collaborator name was called while handling e, whatever the outcome
Attempted(e, name) ==
  \E i \in 1..Len(e.log) : e.log[i][1] = "call" /\ e.log[i][2] = name

FinalCallback ==
  [f \in FlowKeys |-> FlowCallbacks[f][Len(FlowCallbacks[f])]]

\* the collaborator calls of each flow's finalize: rendering and persistence
RenderCall ==
  [f \in FlowKeys |->
     CASE f = "complaint" -> "create_complaint_pdf"
       [] f = "rti" -> "create_rti_pdf"
       [] OTHER -> "create_traffic_violation_pdf"]

SaveCall ==
  [f \in FlowKeys |->
     CASE f = "complaint" -> "save_complaint"
       [] f = "rti" -> "save_rti_request"
       [] OTHER -> "save_traffic_violation"]

\* the replies that report a failed finalize
FailureReplies == {Reply("error_generating_pdf"), Reply("error_submitting")}

(***************************************************************************)
(* C14  In every flow, when the rendering or the persistence fails in the  *)
(* last callback, the user is sent the failure message and the             *)
(* conversation ends in that event; the last callback runs only for a      *)
(* session at the last step, and a user without a conversation in a flow   *)
(* reaches no callback of it but the flow-start, so the finalize is not    *)
(* run again without a new flow-start.                                     *)
(***************************************************************************)
C14_FinalizeFailureEnds ==
  [][\A u \in Users, f \in FlowKeys :
       /\ ( /\ HandledBy(last', u, FinalCallback[f])
            /\ Failed(last', RenderCall[f]) \/ Failed(last', SaveCall[f]) ) =>
              /\ last'.log[Len(last'.log)] \in FailureReplies
              /\ ~Sent(last', "summary")
              /\ conversations'[u][f] = NoState
       /\ HandledBy(last', u, FinalCallback[f]) =>
            conversations[u][f] = FlowStates[f][Len(FlowStates[f])]
       /\ (From(last', u) /\ last'.flow = f /\ conversations[u][f] = NoState) =>
            last'.callback = EntryCallback[f]]_vars

\* the persistence of an RTI request failed: message sent, session over
C14_Witness ==
  \E u \in Users :
    /\ HandledBy(last, u, "rti_purpose")
    /\ Failed(last, "save_rti_request")
    /\ Sent(last, "error_generating_pdf")
    /\ conversations[u]["rti"] = NoState
    /\ saved = <<>>

\* position in the log of e of the call of collaborator name (0: not called)
CallPosition(e, name) ==
  IF Attempted(e, name)
    THEN CHOOSE i \in 1..Len(e.log) :
           /\ e.log[i][1] = "call" /\ e.log[i][2] = name
           /\ \A j \in 1..(i - 1) : ~(e.log[j][1] = "call" /\ e.log[j][2] = name)
    ELSE 0

(***************************************************************************)
(* C15  In every flow's last callback the document is requested before     *)
(* the record is persisted, a persisted record carries the path of the     *)
(* generated document, and nothing is persisted when the generation        *)
(* failed.  Violated: traffic_desc calls save_traffic_violation first and  *)
(* create_traffic_violation_pdf after it, and never puts the path into     *)
(* the record.                                                             *)
(***************************************************************************)
C15_RenderBeforeSave ==
  [][\A u \in Users, f \in FlowKeys :
       HandledBy(last', u, FinalCallback[f]) =>
         /\ Attempted(last', SaveCall[f]) =>
              /\ Attempted(last', RenderCall[f])
              /\ CallPosition(last', RenderCall[f]) < CallPosition(last', SaveCall[f])
         /\ Failed(last', RenderCall[f]) => saved' = saved
         /\ saved' # saved =>
              /\ saved'[Len(saved')].pdf_path # None
              /\ saved'[Len(saved')].pdf_path \in files']_vars

(***************************************************************************)
(* C16  Every collaborator call that fails while an update is handled is   *)
(* followed, in the handling of that update, by a message to the user.     *)
(* Violated: get_file and download_to_drive are awaited outside any try    *)
(* block in complaint_aadhaar, rti_aadhaar and traffic_photo, and no error *)
(* handler is registered, so their failure ends the callback with no       *)
(* reply.                                                                  *)
(***************************************************************************)
C16_FailureIsReported ==
  \A i \in 1..Len(last.log) :
    CallFailed(last.log[i]) =>
      \E j \in (i + 1)..Len(last.log) : last.log[j][1] = "reply"

(***************************************************************************)
(* normalize_phone_number on its own: a text arrives, the function is      *)
(* applied to it, and may be applied again to what it returned.            *)
(***************************************************************************)
NormalizerAlphabet == {"0", "9", "+", " ", "-", "\n"}

\* every string over the alphabet of at most n characters
RECURSIVE Strings(_)
Strings(n) ==
  IF n = 0 THEN {<<>>}
  ELSE Strings(n - 1) \cup
       {<<c>> \o t : c \in NormalizerAlphabet, t \in {x \in Strings(n - 1) : Len(x) = n - 1}}

\* the endings the varied beginnings are continued with
NormalizerTails ==
  {<<>>,
   <<"8","7","6","5","4","3","2">>,
   <<"8","7","6","5","4","3","2","1">>,
   <<"8","7","6"," ","5","4","-","3","2">>}

NormalizerInputs == {b \o t : b \in Strings(MaxPrefix), t \in NormalizerTails}

Return(value) == <<"return", value>>

\* the text raw_phone handed to normalize_phone_number and what it returned
NormalizeCall(raw_phone) ==
  Event(1, Text(raw_phone), "app", "normalize_phone_number",
        <<Return(normalize_phone_number(raw_phone))>>)

Returned(e) == e.log[1][2]

IsNormalizeCall(e) == e.callback = "normalize_phone_number"

InitNormalize ==
  /\ Start
  /\ budget = [starts |-> 0, cancel_texts |-> 0, flows |-> 0, users |-> {}]

\* phone = normalize_phone_number(raw_phone) on a text just received
normalize ==
  /\ ~IsNormalizeCall(last)
  /\ \E raw_phone \in NormalizerInputs : last' = NormalizeCall(raw_phone)
  /\ UNCHANGED <<conversations, user_data, hist, budget, files, saved>>

\* the function applied to the number it returned
normalize_again ==
  /\ IsNormalizeCall(last)
  /\ last' = NormalizeCall(Returned(last))
  /\ UNCHANGED <<conversations, user_data, hist, budget, files, saved>>

NextNormalize == normalize \/ normalize_again

SpecNormalize == InitNormalize /\ [][NextNormalize]_vars

\* s consists of exactly ten decimal digits
IsTenDigits(s) ==
  /\ Len(s) = 10
  /\ \A i \in 1..10 : s[i] \in {"0","1","2","3","4","5","6","7","8","9"}

(***************************************************************************)
(* C17  as stated: for every input of exactly ten decimal digits, a first  *)
(* digit 0 included, normalize_phone_number returns "+91" followed by the  *)
(* ten digits.  A leading "0" or "00" is dropped before the length is      *)
(* tested, so "0987654321" gives "+987654321".                             *)
(***************************************************************************)
C17_Original ==
  (IsNormalizeCall(last) /\ IsTenDigits(last.upd.text)) =>
    Returned(last) = <<"+","9","1">> \o last.upd.text

(***************************************************************************)
(* C17  as amended: for every input of exactly ten decimal digits whose    *)
(* first digit is not 0, normalize_phone_number returns "+91" followed by  *)
(* the ten digits unchanged.                                               *)
(***************************************************************************)
C17_TenDigits ==
  (IsNormalizeCall(last) /\ IsTenDigits(last.upd.text) /\ last.upd.text[1] # "0") =>
    Returned(last) = <<"+","9","1">> \o last.upd.text

\* "9998765432" was normalized to "+919998765432"
C17_Witness ==
  /\ IsNormalizeCall(last)
  /\ last.upd.text = <<"9","9","9","8","7","6","5","4","3","2">>
  /\ Returned(last) = <<"+","9","1","9","9","9","8","7","6","5","4","3","2">>

\* s holds nothing but digits, "+", spaces and hyphens
IsPhoneText(s) ==
  \A i \in 1..Len(s) :
    s[i] \in {"0","1","2","3","4","5","6","7","8","9","+"," ","-"}

\* s without its spaces and hyphens
Compact(s) == SelectSeq(s, LAMBDA c : c \notin {" ", "-"})

(***************************************************************************)
(* C18  as stated: for every input whose first character is "+", spaces    *)
(* and hyphens after it included, normalize_phone_number returns the input *)
(* verbatim.  Spaces and hyphens are removed before the "+" is tested.     *)
(***************************************************************************)
C18_Original ==
  (IsNormalizeCall(last) /\ last.upd.text # <<>> /\ last.upd.text[1] = "+") =>
    Returned(last) = last.upd.text

(***************************************************************************)
(* C18  as amended: for every input whose first character is "+",          *)
(* normalize_phone_number returns the input with the whitespace at its end *)
(* and every space and hyphen removed, and so the input verbatim when it   *)
(* holds none of these.                                                    *)
(***************************************************************************)
C18_PlusKept ==
  (IsNormalizeCall(last) /\ last.upd.text # <<>> /\ last.upd.text[1] = "+") =>
    /\ Returned(last) = Compact(RStrip(last.upd.text))
    /\ (\A i \in 1..Len(last.upd.text) : last.upd.text[i] \in {"+", "0", "9"}) =>
         Returned(last) = last.upd.text

\* "+9 876 54-32" was normalized to "+98765432"
C18_Witness ==
  /\ IsNormalizeCall(last)
  /\ last.upd.text = <<"+","9"," ","8","7","6"," ","5","4","-","3","2">>
  /\ Returned(last) = <<"+","9","8","7","6","5","4","3","2">>

(***************************************************************************)
(* C19  normalize_phone_number is idempotent on strings of digits, "+",    *)
(* space and hyphen: applied to the number it returned for such a string,  *)
(* it returns that number.                                                 *)
(***************************************************************************)
C19_Idempotent ==
  [][(IsNormalizeCall(last) /\ IsNormalizeCall(last')
        /\ IsPhoneText(last.upd.text)
        /\ last'.upd.text = Returned(last)) =>
       Returned(last') = Returned(last)]_vars

\* "+919998765432", returned for "9998765432", was normalized again
C19_Witness ==
  /\ IsNormalizeCall(last)
  /\ last.upd.text = <<"+","9","1","9","9","9","8","7","6","5","4","3","2">>
  /\ Returned(last) = last.upd.text

\* the attachment step of the complaint and rti flows and the step after it
AadhaarState ==
  [f \in {"complaint", "rti"} |->
     IF f = "complaint" THEN "COMPLAINT_AADHAAR" ELSE "RTI_AADHAAR"]

AfterAadhaar ==
  [f \in {"complaint", "rti"} |->
     IF f = "complaint" THEN "COMPLAINT_ADDRESS" ELSE "RTI_ADDRESS"]

(***************************************************************************)
(* C20  At the attachment step of the complaint and rti flows the session  *)
(* advances only on a photo or on a file whose declared type starts with   *)
(* "image/"; a file of another or of no declared type, and a text that is  *)
(* not "cancel", leave the step, the session dictionary with its           *)
(* attachment path and the stored files as they were; the text "cancel"    *)
(* in any letter case ends the conversation.                               *)
(***************************************************************************)
C20_AttachmentGate ==
  [][\A u \in Users, f \in {"complaint", "rti"} :
       LET upd == last'.upd
           image == \/ upd.kind = "photo"
                    \/ /\ upd.kind = "document"
                       /\ upd.mime # None
                       /\ Len(upd.mime) >= 6
                       /\ SubSeq(upd.mime, 1, 6) = <<"i","m","a","g","e","/">>
       IN
       /\ ( /\ From(last', u)
            /\ conversations[u][f] = AadhaarState[f]
            /\ conversations'[u][f] \notin {AadhaarState[f], NoState} ) =>
              /\ image
              /\ conversations'[u][f] = AfterAadhaar[f]
              /\ user_data'[u][f]["aadhaar_photo_path"] \in files'
       /\ ( /\ HandledBy(last', u, CallbackOf(f, AadhaarState[f]))
            /\ \/ upd.kind = "document" /\ ~image
               \/ upd.kind = "text" /\ Lower(upd.text) # kCancel ) =>
              /\ conversations'[u][f] = AadhaarState[f]
              /\ user_data' = user_data
              /\ files' = files
              /\ Len(Replies(last')) = 1
       /\ ( /\ HandledBy(last', u, CallbackOf(f, AadhaarState[f]))
            /\ upd.kind = "text" /\ Lower(upd.text) = kCancel ) =>
              /\ conversations'[u][f] = NoState
              /\ Acknowledged(last')]_vars

\* a file declared text/plain was refused at the attachment step
C20_Witness ==
  \E u \in Users, f \in {"complaint", "rti"} :
    /\ HandledBy(last, u, CallbackOf(f, AadhaarState[f]))
    /\ last.upd.kind = "document"
    /\ last.upd.mime = kTextPlain
    /\ Replies(last) = <<Reply("aadhaar_as_image")>>
    /\ conversations[u][f] = AadhaarState[f]
    /\ user_data[u][f]["aadhaar_photo_path"] = None
    /\ files = {}

\* the step that follows state in the declared order of flow f (NoState
\* after the last one)
NextStep(f, state) ==
  IF StateIndex(f, state) < Len(FlowStates[f])
    THEN FlowStates[f][StateIndex(f, state) + 1]
    ELSE NoState

(***************************************************************************)
(* C21  In each flow an update leaves a session at its step, moves it to   *)
(* the step that follows in the order the states are declared, or ends the *)
(* conversation; a conversation begins at the first step only, by the      *)
(* flow-start callback; and the rendering and persistence calls of the     *)
(* finalize are made only while the session is at the flow's last step.    *)
(***************************************************************************)
C21_StepOrder ==
  [][\A u \in Users, f \in FlowKeys :
       LET state == conversations[u][f]
           after == conversations'[u][f]
       IN
       /\ state # NoState => after \in {state, NextStep(f, state), NoState}
       /\ (state = NoState /\ after # NoState) =>
            /\ after = FirstState[f]
            /\ HandledBy(last', u, EntryCallback[f])
       /\ ( /\ From(last', u) /\ last'.flow = f
            /\ Attempted(last', RenderCall[f]) \/ Attempted(last', SaveCall[f]) ) =>
            /\ state = FlowStates[f][Len(FlowStates[f])]
            /\ after = NoState]_vars

\* every step of the longest flow was passed in order and the finalize ran
C21_Witness ==
  \E u \in Users :
    /\ HandledBy(last, u, "complaint_description")
    /\ Attempted(last, "save_complaint")
    /\ conversations[u]["complaint"] = NoState
    /\ {"name", "father_name", "age", "phone", "email", "address",
        "initial_description", "complaint_type", "incident_date",
        "incident_location", "description"} \subseteq DOMAIN user_data[u]["complaint"]

(***************************************************************************)
(* C22  A location shared while the traffic session is at the location     *)
(* step is handled by traffic_location: the coordinates are stored in the  *)
(* session and the session moves to the photo step.  Violated: main()      *)
(* registers MessageHandler(filters.LOCATION, handle_location) before the  *)
(* conversation handlers, so every location update is taken by             *)
(* handle_location and the session stays at the location step with         *)
(* nothing stored.                                                         *)
(***************************************************************************)
C22_SharedLocationAdvances ==
  [][\A u \in Users :
       ( /\ From(last', u)
         /\ last'.upd.kind = "location"
         /\ conversations[u]["traffic"] = "TRAFFIC_LOCATION" ) =>
         /\ last'.callback = "traffic_location"
         /\ conversations'[u]["traffic"] = "TRAFFIC_PHOTO"
         /\ {"latitude", "longitude", "location"}
              \subseteq DOMAIN user_data'[u]["traffic"]]_vars

\* the keyboard traffic_vehicle offers for the violation category
ViolationChoices ==
  {kIllegalParking,
   <<"W","r","o","n","g"," ","S","i","d","e"," ","D","r","i","v","i","n","g">>,
   <<"T","r","a","f","f","i","c"," ","S","i","g","n","a","l"," ",
     "V","i","o","l","a","t","i","o","n">>,
   <<"O","v","e","r"," ","S","p","e","e","d","i","n","g">>,
   <<"O","t","h","e","r"," ","V","i","o","l","a","t","i","o","n">>}

(***************************************************************************)
(* C23  The violation category a traffic session holds is one of the       *)
(* choices of the keyboard, and a reply at the category step that is not   *)
(* one of them leaves the session at the category step.  Violated:         *)
(* traffic_type stores update.message.text whatever it is and returns      *)
(* TRAFFIC_LOCATION.                                                       *)
(***************************************************************************)
C23_CategoryIsAChoice ==
  [][\A u \in Users :
       HandledBy(last', u, "traffic_type") =>
         /\ user_data'[u]["traffic"]["violation_type"] \in ViolationChoices
         /\ last'.upd.text \notin ViolationChoices =>
              conversations'[u]["traffic"] = "TRAFFIC_TYPE"]_vars

\* position in the log of e of the last reply, the prompt the user is left
\* with (0: nothing was sent)
PromptPosition(e) ==
  IF \E i \in 1..Len(e.log) : e.log[i][1] = "reply"
    THEN CHOOSE i \in 1..Len(e.log) :
           /\ e.log[i][1] = "reply"
           /\ \A j \in (i + 1)..Len(e.log) : e.log[j][1] # "reply"
    ELSE 0

(***************************************************************************)
(* C24  In every callback the prompt the user is left with is sent after   *)
(* every write the callback makes to the session: the creation of the      *)
(* session dictionary, the stored field, the attempt counter.  Violated:   *)
(* complaint_start, rti_start and traffic_start await reply_text with the  *)
(* prompt for the name first and assign context.user_data[flow] after it.  *)
(***************************************************************************)
C24_PromptAfterCommit ==
  \A i \in 1..Len(last.log) :
    last.log[i][1] = "write" => i < PromptPosition(last)

(***************************************************************************)
(* Two users, and a collaborator call that has not returned yet.  The      *)
(* callbacks call otp_service.send_otp without awaiting it, and the        *)
(* application is built without concurrent_updates, so an update is taken  *)
(* from the queue only when the callback handling the previous one has     *)
(* returned.  The phone step is split here into the part before send_otp   *)
(* is called and the part after it returned; both users run each flow up   *)
(* to the step that follows the verification.                              *)
(***************************************************************************)
InitTwoUsers ==
  /\ Start
  /\ budget = [starts |-> MaxStarts, cancel_texts |-> 0, flows |-> MaxFlowsPerUser,
               users |-> Users]

\* complaint_phone, rti_phone, traffic_phone up to the call of send_otp: the
\* number is stored, the state is the one the handler holds
send_otp_call(u) ==
  \E f \in FlowKeys, raw_phone \in {kPhone, kPhoneZero} :
    /\ Dispatch(u, Text(raw_phone)) = <<f, CallbackOf(f, PhoneState[f])>>
    /\ user_data' = SetField(u, f, PhoneKey[f], normalize_phone_number(raw_phone))
    /\ last' = Event(u, Text(raw_phone), f, CallbackOf(f, PhoneState[f]),
                     <<Write(PhoneKey[f]), <<"pending", "send_otp">> >>)
    /\ UNCHANGED <<conversations, hist, budget, files, saved>>

\* send_otp returns and the phone callback runs to its end
send_otp_return(u) ==
  \E sent \in BOOLEAN :
    LET f == last.flow IN
    /\ Pending(last)
    /\ last.user = u
    /\ conversations' =
         UpdateState(u, f, PhoneNextState(sent, PhoneState[f], OtpState[f]))
    /\ user_data' = IF sent THEN SetField(u, f, "otp_attempts", 0) ELSE user_data
    /\ last' = [last EXCEPT !.log =
                  IF sent
                    THEN <<Write(PhoneKey[f]), CallR("send_otp", TRUE),
                           Write("otp_attempts"), Reply("otp_sent")>>
                    ELSE <<Write(PhoneKey[f]), CallR("send_otp", FALSE),
                           Reply("otp_send_failed")>>]
    /\ UNCHANGED <<hist, budget, files, saved>>

\* what the application does with an update of user u, or with the return
\* of a call made for u
TwoUserStep(u) ==
  \/ complaint_start(u) \/ complaint_name(u) \/ complaint_father_name(u)
  \/ complaint_age(u) \/ complaint_otp(u)
  \/ rti_start(u) \/ rti_name(u) \/ rti_otp(u)
  \/ traffic_start(u) \/ traffic_name(u) \/ traffic_otp(u)
  \/ cancel(u) \/ general(u) \/ unhandled(u)
  \/ send_otp_call(u) \/ send_otp_return(u)

NextTwoUsers == \E u \in Users : TwoUserStep(u)

SpecTwoUsers == InitTwoUsers /\ [][NextTwoUsers]_vars

(***************************************************************************)
(* C25  With two users whose updates interleave in every order, handling   *)
(* an update of one user leaves the conversation state, the session        *)
(* dictionaries and the attempt counter of the other user as they were;    *)
(* the callback that handles the update is the one of the sender's own     *)
(* conversation state, and the session it writes carries the sender's id.  *)
(***************************************************************************)
C25_UsersAreSeparate ==
  [][\A u \in Users, v \in Users :
       (u # v /\ From(last', u)) =>
         /\ conversations'[v] = conversations[v]
         /\ user_data'[v] = user_data[v]
         /\ hist'[v] = hist[v]
         /\ \A f \in FlowKeys :
              /\ last'.flow = f =>
                   last'.callback \in
                     IF conversations[u][f] = NoState
                       THEN {EntryCallback[f]}
                       ELSE {CallbackOf(f, conversations[u][f]), "cancel"}
              /\ f \in DOMAIN user_data'[u] => user_data'[u][f]["user_id"] = u]_vars

\* both users are at the verification step of the same flow, the first with
\* two rejected codes, and the second has just had its first code rejected
C25_Witness ==
  /\ conversations[1]["rti"] = "RTI_OTP"
  /\ Attempts(user_data, 1, "rti") = 2
  /\ IsCode(last, 2, "rti")
  /\ conversations[2]["rti"] = "RTI_OTP"
  /\ Attempts(user_data, 2, "rti") = 1

(***************************************************************************)
(* C26  While a collaborator call made for one user has not returned, an   *)
(* update of another user can be handled.  Violated: send_otp, verify_otp, *)
(* the classification, the document generation and the persistence are     *)
(* called without await inside the callbacks, and the application handles  *)
(* one update at a time, so until the call returns no update of any other  *)
(* user is taken from the queue.                                           *)
(***************************************************************************)
C26_NoCoupling ==
  \A a \in Users, b \in Users :
    (a # b /\ Pending(last) /\ last.user = a) => ENABLED TwoUserStep(b)

(***************************************************************************)
(* C27  In every reachable state the attempt counter of every session is   *)
(* between 0 and 3, and a session whose counter is 3 is not waiting at the *)
(* verification step: its third code was accepted, or its conversation is  *)
(* over.                                                                   *)
(***************************************************************************)
C27_CounterAtMostThree ==
  \A u \in Users, f \in FlowKeys :
    f \in DOMAIN user_data[u] =>
      /\ Attempts(user_data, u, f) \in 0..3
      /\ Attempts(user_data, u, f) = 3 => conversations[u][f] # OtpState[f]

\* a third code was rejected: the counter is 3 and the conversation is over
C27_Witness ==
  \E u \in Users, f \in FlowKeys :
    /\ IsCode(last, u, f)
    /\ f \in DOMAIN user_data[u]
    /\ Attempts(user_data, u, f) = 3
    /\ ~hist[u][f].verified
    /\ conversations[u][f] = NoState

(***************************************************************************)
(* C28  Within a session the attempt counter never decreases: every update *)
(* handled by a callback other than the flow-start leaves it as it was or  *)
(* raises it, and the phone callback leaves it as it was, both when        *)
(* send_otp fails and when it succeeds.  Only the flow-start callback,     *)
(* which creates a new session, brings it back to 0.                       *)
(***************************************************************************)
C28_CounterNeverDecreases ==
  [][\A u \in Users, f \in FlowKeys :
       ( /\ From(last', u)
         /\ f \in DOMAIN user_data[u]
         /\ ~HandledBy(last', u, EntryCallback[f]) ) =>
         /\ f \in DOMAIN user_data'[u]
         /\ Attempts(user_data', u, f) >= Attempts(user_data, u, f)
         /\ IsPhone(last', u, f) =>
              Attempts(user_data', u, f) = Attempts(user_data, u, f)]_vars

\* a number was entered at the phone step and send_otp accepted it: the
\* counter is written and holds the 0 the session was created with
C28_Witness ==
  \E u \in Users, f \in FlowKeys :
    /\ IsPhone(last, u, f)
    /\ Result(last, "send_otp")
    /\ Position(last, Write("otp_attempts")) > 0
    /\ conversations[u][f] = OtpState[f]
    /\ Attempts(user_data, u, f) = 0

(***************************************************************************)
(* C29  In every flow a session is at a step after the verification step   *)
(* only if verify_otp accepted a code in that session: the verification    *)
(* step is left for a later step only by an input that verify_otp          *)
(* accepted, and from then on no update changes the phone number the       *)
(* session holds, which is the one verify_otp was called with.             *)
(***************************************************************************)
C29_VerifiedBeforeLaterSteps ==
  [][\A u \in Users, f \in FlowKeys :
       LET after == conversations'[u][f] IN
       (after # NoState /\ StateIndex(f, after) > StateIndex(f, OtpState[f])) =>
         /\ hist'[u][f].verified
         /\ conversations[u][f] = OtpState[f] =>
              /\ IsCode(last', u, f)
              /\ Result(last', "verify_otp")
         /\ user_data'[u][f][PhoneKey[f]] = user_data[u][f][PhoneKey[f]]]_vars

\* two codes were rejected, the third was accepted, and the session has
\* moved on past the step that follows the verification
C29_Witness ==
  \E u \in Users, f \in FlowKeys :
    /\ conversations[u][f] = NextStep(f, AfterOtp[f])
    /\ hist[u][f].verified
    /\ hist[u][f].failed = 2
    /\ PhoneKey[f] \in DOMAIN user_data[u][f]

(***************************************************************************)
(* C30  In the complaint and rti flows a session that is at a step after   *)
(* the attachment step, and a session whose last callback runs, holds an   *)
(* attachment path that names a stored file.  The path is assigned only by *)
(* the attachment callback, in the update whose download returned, to a    *)
(* session that held no path yet: at most once in a session.               *)
(***************************************************************************)
C30_AttachmentBound ==
  [][\A u \in Users, f \in {"complaint", "rti"} :
       LET after == conversations'[u][f]
           path == user_data'[u][f]["aadhaar_photo_path"]
       IN
       /\ ( \/ /\ after # NoState
               /\ StateIndex(f, after) > StateIndex(f, AadhaarState[f])
            \/ HandledBy(last', u, FinalCallback[f]) ) =>
            /\ path # None
            /\ path \in files'
       /\ ( /\ From(last', u) /\ last'.flow = f
            /\ Position(last', Write("aadhaar_photo_path")) > 0 ) =>
            /\ conversations[u][f] = AadhaarState[f]
            /\ user_data[u][f]["aadhaar_photo_path"] = None
            /\ Attempted(last', "download_to_drive")
            /\ ~Failed(last', "download_to_drive")
            /\ path \in files'
       /\ ( /\ f \in DOMAIN user_data[u]
            /\ f \in DOMAIN user_data'[u]
            /\ user_data'[u][f]["aadhaar_photo_path"]
                 # user_data[u][f]["aadhaar_photo_path"] ) =>
            \/ HandledBy(last', u, EntryCallback[f])
            \/ Position(last', Write("aadhaar_photo_path")) > 0]_vars

\* a file sent with the extension PNG was stored under a lower-case suffix,
\* and the session has run its last callback holding the path of that file
C30_Witness ==
  \E u \in Users :
    /\ HandledBy(last, u, "rti_purpose")
    /\ Attempted(last, "create_rti_pdf")
    /\ user_data[u]["rti"]["aadhaar_photo_path"] \in files
    /\ user_data[u]["rti"]["aadhaar_photo_path"][5] = Lower(kExtPng)

(***************************************************************************)
(* C31  For every text normalize_phone_number is applied to, it returns a  *)
(* text (no branch of it raises), and the text returned starts with "+"    *)
(* and holds neither a space nor a hyphen.                                 *)
(***************************************************************************)
C31_PlusAndCompact ==
  IsNormalizeCall(last) =>
    /\ Len(Returned(last)) >= 1
    /\ Returned(last)[1] = "+"
    /\ \A i \in 1..Len(Returned(last)) : Returned(last)[i] \notin {" ", "-"}

\* "0-0876 54-32", with a hyphen inside the leading "00", a space and a
\* second hyphen, gave "+8765432"
C31_Witness ==
  /\ IsNormalizeCall(last)
  /\ last.upd.text = <<"0","-","0","8","7","6"," ","5","4","-","3","2">>
  /\ Returned(last) = <<"+","8","7","6","5","4","3","2">>

(***************************************************************************)
(* C33  In the complaint flow the suggestion a session holds is its own:   *)
(* complaint_start leaves the session without suggested_type and without   *)
(* complaint_type, whatever an earlier session of the user held, and only  *)
(* complaint_initial_description changes suggested_type afterwards.  When  *)
(* the classification failed, so that the session holds no suggestion, a   *)
(* reply of "yes", "correct", "ok" or "y" at the category step is stored   *)
(* itself, stripped, as the category and the session advances to the       *)
(* incident-date step.                                                     *)
(***************************************************************************)
C33_OwnSuggestionOnly ==
  [][\A u \in Users :
       LET d == Get(user_data[u], "complaint", <<>>)
           dn == Get(user_data'[u], "complaint", <<>>)
       IN
       /\ HandledBy(last', u, "complaint_start") =>
            /\ "suggested_type" \notin DOMAIN dn
            /\ "complaint_type" \notin DOMAIN dn
       /\ ( /\ From(last', u)
            /\ last'.callback \notin {"complaint_start", "complaint_initial_description"} ) =>
              /\ ("suggested_type" \in DOMAIN dn) = ("suggested_type" \in DOMAIN d)
              /\ "suggested_type" \in DOMAIN d => dn["suggested_type"] = d["suggested_type"]
       /\ ( /\ HandledBy(last', u, "complaint_type")
            /\ "suggested_type" \notin DOMAIN d
            /\ Lower(Strip(last'.upd.text)) \in AcceptWords ) =>
              /\ dn["complaint_type"] = Strip(last'.upd.text)
              /\ conversations'[u]["complaint"] = "COMPLAINT_DATE"]_vars

\* the user's second complaint session, after one that was completed and
\* saved: the classification failed, "Yes" was typed at the category step
\* and "Yes" is the category stored
C33_Witness ==
  \E u \in Users :
    /\ HandledBy(last, u, "complaint_type")
    /\ last.upd.text = kYes
    /\ "suggested_type" \notin DOMAIN user_data[u]["complaint"]
    /\ user_data[u]["complaint"]["complaint_type"] = kYes
    /\ conversations[u]["complaint"] = "COMPLAINT_DATE"
    /\ budget.starts = 0
    /\ Len(saved) = 1

(***************************************************************************)
(* One user with two flows in progress at once.  The conversation handlers *)
(* are built without allow_reentry and each keeps its own state per user,  *)
(* so /rti is accepted by the entry point of the RTI handler while a       *)
(* complaint is in progress, and so on for each pair.  The RTI flow runs   *)
(* up to the step after the attachment, the complaint flow up to the       *)
(* phone step and the traffic flow up to its phone step.                   *)
(***************************************************************************)
InitTwoFlows ==
  /\ Start
  /\ budget = [starts |-> MaxStarts, cancel_texts |-> 0, flows |-> MaxFlowsTogether,
               users |-> {1}]

TwoFlowStep(u) ==
  \/ complaint_start(u) \/ complaint_name(u) \/ complaint_father_name(u)
  \/ complaint_age(u)
  \/ rti_start(u) \/ rti_name(u) \/ rti_phone(u) \/ rti_otp(u) \/ rti_email(u)
  \/ rti_aadhaar(u) \/ rti_address(u)
  \/ traffic_start(u) \/ traffic_name(u)
  \/ cancel(u) \/ general(u) \/ unhandled(u)

NextTwoFlows == \E u \in Users : TwoFlowStep(u)

SpecTwoFlows == InitTwoFlows /\ [][NextTwoFlows]_vars

\* the flows in which u has a conversation in progress
InProgress(u) == {f \in FlowKeys : conversations[u][f] # NoState}

\* event e is a text, photo or document message of user u
IsMessage(e, u) == e.user = u /\ e.upd.kind \in {"text", "photo", "document"}

\* the handler registered for a state takes messages of this kind: every
\* step takes text, the two Aadhaar steps take photos and documents too,
\* the photo step of the traffic flow takes photos too
TakesKind(state, kind) ==
  \/ kind = "text"
  \/ kind \in {"photo", "document"} /\ state \in {"COMPLAINT_AADHAAR", "RTI_AADHAAR"}
  \/ kind = "photo" /\ state = "TRAFFIC_PHOTO"

\* f is the first handler, in the order of registration, that holds a
\* conversation of u whose step takes messages of this kind
FirstTaking(u, kind, f) ==
  \E i \in 1..Len(FlowOrder) :
    /\ FlowOrder[i] = f
    /\ conversations[u][f] # NoState
    /\ TakesKind(conversations[u][f], kind)
    /\ \A j \in 1..(i - 1) :
         \/ conversations[u][FlowOrder[j]] = NoState
         \/ ~TakesKind(conversations[u][FlowOrder[j]], kind)

\* the event left every flow of u other than f as it was: state and fields
OthersUntouched(u, f) ==
  \A g \in FlowKeys \ {f} :
    /\ conversations'[u][g] = conversations[u][g]
    /\ (g \in DOMAIN user_data'[u]) = (g \in DOMAIN user_data[u])
    /\ g \in DOMAIN user_data[u] => user_data'[u][g] = user_data[u][g]

(***************************************************************************)
(* C32  as stated: when a user has two flows in progress, every message is *)
(* handled by the step callback of the flow registered first among them,   *)
(* and the other session is left as it was.  A photo or a document is      *)
(* taken by a step of the first flow only when that step is an attachment  *)
(* step: otherwise it goes to the attachment step of the flow registered   *)
(* later, or to handle_photo when no step in progress takes it.            *)
(***************************************************************************)
C32_Original ==
  [][\A u \in Users, f \in FlowKeys :
       ( /\ IsMessage(last', u)
         /\ Cardinality(InProgress(u)) >= 2
         /\ FirstActive(u, f) ) =>
         /\ last'.flow = f
         /\ last'.callback = CallbackOf(f, conversations[u][f])
         /\ OthersUntouched(u, f)]_vars

(***************************************************************************)
(* C32  When a user has two flows in progress, a message is handled by one *)
(* callback: the step callback of the first flow, in the order complaint,  *)
(* RTI, traffic, whose current step takes that kind of message, so a text  *)
(* always goes to the flow registered first, while a photo or a document   *)
(* goes past a text-only step to the attachment step of a flow registered  *)
(* later; when no step in progress takes it, no flow handles it.           *)
(* Whatever the event is, a command included, the state and the fields of  *)
(* every flow other than the one that handled it are left as they were.    *)
(***************************************************************************)
C32_FirstTakingFlow ==
  [][\A u \in Users :
       (From(last', u) /\ Cardinality(InProgress(u)) >= 2) =>
         /\ OthersUntouched(u, last'.flow)
         /\ IsMessage(last', u) =>
              /\ \A f \in FlowKeys :
                   FirstTaking(u, last'.upd.kind, f) =>
                     /\ last'.flow = f
                     /\ last'.callback = CallbackOf(f, conversations[u][f])
              /\ (\A f \in FlowKeys : ~FirstTaking(u, last'.upd.kind, f)) =>
                   last'.flow = "app"
              /\ last'.upd.kind = "text" => FirstActive(u, last'.flow)]_vars

\* the complaint is at its first step, which takes text only, and the photo
\* just sent was taken by the Aadhaar step of the RTI flow, which moved on
C32_Witness ==
  \E u \in Users :
    /\ conversations[u]["complaint"] = "COMPLAINT_NAME"
    /\ HandledBy(last, u, "rti_aadhaar")
    /\ last.upd.kind = "photo"
    /\ conversations[u]["rti"] = "RTI_ADDRESS"
    /\ user_data[u]["complaint"] = FreshSession(u, "complaint")

====
